---- MODULE Spec2Model ----
(***************************************************************************)
(* GameRadar AI: the ingestion collector (scrapers.py), the ranking        *)
(* ingestion (bronze_ingestion.py), the pipeline orchestrator              *)
(* (pipeline.py), the country detector (country_detector.py), the skill    *)
(* vector builder and writer (skill_vector_embeddings.py), the embedding   *)
(* run (embedding_generator.py) and the profile model (models.py).         *)
(*                                                                         *)
(* Numbers with decimals are kept as scaled integers: a win rate is held   *)
(* in tenths of a percent (54.9 is 549), so that comparisons are exact.    *)
(***************************************************************************)
EXTENDS Integers, Sequences, FiniteSets, TLC

VARIABLES
    entry,          \* the operation that was called from outside
    pc,             \* position inside the running operation
    identifiers,    \* scrape_players: the targets, in order
    i,              \* scrape_players: enumerate() index, 0-based
    profiles,       \* scrape_players: the profiles collected so far
    silver,         \* the store's silver_players table (rows, in query order)
    gold,           \* the store's gold_verified_players table (rows, in order)
    bronze,         \* the store's bronze_raw_data table (rows, in order)
    open_pages,     \* scrape_player: browser pages opened and not closed
    proxies,        \* ProxyRotator.proxies
    current_proxy_index, \* ProxyRotator.current_proxy_index
    players,        \* the rows the running stage fetched from the store
    idx,            \* loop position of the running stage (items done)
    inserted_count, \* run_scraping_to_bronze: inserted_count / bronze_count
    silver_players, \* run_full_pipeline: what verify_silver_data returned
    promoted_count, \* promote_best_to_gold: promoted_count / gold_count
    synced_count,   \* sync_to_airtable: synced_count / airtable_count
    error_count,    \* BronzeIngestionScraper.error_count
    calls,          \* every call made to a collaborator, in order
    retry_state,    \* tenacity's state of the scrape_player call in progress
    gold_analytics, \* the store's gold_analytics table (rows, in insertion order)
    pending,        \* embedding main: players of the batch still to be saved
    embeddings,     \* embedding main: how many vectors the provider returned
    total_success,  \* embedding main: total_success
    total_errors,   \* embedding main: total_errors
    input,          \* arguments of a pure function under check
    output          \* its result

vars == << entry, pc, identifiers, i, profiles, silver, gold, bronze, open_pages,
           proxies, current_proxy_index, players, idx,
           inserted_count, silver_players, promoted_count, synced_count,
           error_count, calls, retry_state, gold_analytics, pending,
           embeddings, total_success, total_errors, input, output >>

\* the variables of the proxy rotation (proxy_rotator.py)
proxyVars == << proxies, current_proxy_index >>

\* the variables of the embedding run (embedding_generator.py)
embedVars == << gold_analytics, pending, embeddings, total_success, total_errors >>

(***************************************************************************)
(* Bounds of the model.                                                    *)
(***************************************************************************)
MaxTargets == 5
MaxPipelineTargets == 2
MaxSilver == 2
MaxPlayers == 3
MaxExport == 23
MaxTextLen == 2
MaxChampions == 4
MaxRows == 3
MaxAttempts == 4
MaxEmbedPlayers == 3
MaxAnalyticsRows == 2
MaxStoreCalls == 3

(***************************************************************************)
(* Program constants.                                                      *)
(***************************************************************************)
\* pipeline.py:157  batch_size = 10
batch_size == 10
\* pipeline.py:217  promote_best_to_gold(min_win_rate=55.0), in tenths
DefaultMinWinRate == 550
\* pipeline.py:91  players[:5]
SummaryRows == 5
\* pipeline.py:86 / 114 / 221  limit of the three queries
VerifyLimit == 100
PromoteLimit == 50
ExportLimit == 50
\* config.py:21  rate_limit_delay: int = 2 (seconds)
rate_limit_delay == 2

None == "None"

Min(a, b) == IF a < b THEN a ELSE b

\* s[:n]
Take(s, n) == SubSeq(s, 1, Min(n, Len(s)))

RECURSIVE SumSeq(_)
SumSeq(s) == IF s = << >> THEN 0 ELSE Head(s) + SumSeq(Tail(s))

(***************************************************************************)
(* A call to a collaborator, as recorded in calls: the method that made   *)
(* it, the operation, its argument (a sequence of ids) and how it ended.   *)
(***************************************************************************)
Call(by, op, arg, res) == [by |-> by, op |-> op, arg |-> arg, res |-> res]

CallsOf(op) == SelectSeq(calls, LAMBDA c : c.op = op)

(***************************************************************************)
(* Rows of silver_players.  stats is the JSON value of the column: absent  *)
(* (null), or a map that may or may not hold win_rate.  fields_ok says     *)
(* whether the remaining columns satisfy PlayerProfile's validators        *)
(* (models.py:64-87), for instance a non-empty top_champions.              *)
(***************************************************************************)
Row(id, stats_present, has_win_rate, win_rate, fields_ok) ==
    [id |-> id, stats_present |-> stats_present,
     has_win_rate |-> has_win_rate, win_rate |-> win_rate,
     fields_ok |-> fields_ok]

RowKinds ==
    { << TRUE,  TRUE,  549, TRUE  >>,    \* win_rate 54.9
      << TRUE,  TRUE,  550, TRUE  >>,    \* win_rate 55.0
      << TRUE,  TRUE,  600, FALSE >>,    \* win_rate 60.0, top_champions empty
      << TRUE,  FALSE, 0,   TRUE  >>,    \* stats without win_rate
      << FALSE, FALSE, 0,   TRUE  >> }   \* stats null

MkRow(id, k) == Row(id, k[1], k[2], k[3], k[4])

\* every table of n rows with ids 1..n whose rows are of the given kinds
Tables(n, kinds) ==
    { [k \in 1..n |-> MkRow(k, f[k])] : f \in [1..n -> kinds] }

(***************************************************************************)
(* SupabaseClient's writes (supabase_client.py).  ok tells whether the     *)
(* store carried the request out; when it did not, the client logs and     *)
(* re-raises and the table is as before.                                   *)
(***************************************************************************)
\* supabase_client.py:42-47  table("bronze_raw_data").insert({...}).execute()
insert_bronze_raw(table, raw_data, ok) ==
    IF ok THEN Append(table, raw_data) ELSE table

\* the silver_players rows with the given id (.select("*").eq("id", ...))
SilverById(table, silver_id) ==
    SelectSeq(table, LAMBDA row : row.id = silver_id)

\* supabase_client.py:222-237  the verified row copies the normalized one
GoldRecord(silver_id, player) == [silver_id |-> silver_id, player |-> player]

\* variant: the verified row is written without looking the id up
promote_to_gold_unchecked(silver_table, gold_table, silver_id, ok) ==
    IF ~ok THEN [raised |-> "Exception", gold |-> gold_table]
    ELSE [raised |-> "no",
          gold |-> Append(gold_table,
                          GoldRecord(silver_id,
                                     IF SilverById(silver_table, silver_id) = << >>
                                     THEN None
                                     ELSE SilverById(silver_table, silver_id)[1]))]

\* supabase_client.py:209-244  look the id up in silver_players, raise
\* ValueError when it is not there, else insert into gold_verified_players
promote_to_gold(silver_table, gold_table, silver_id, ok) ==
    IF ~ok THEN [raised |-> "Exception", gold |-> gold_table]
    ELSE IF SilverById(silver_table, silver_id) = << >>
    THEN [raised |-> "ValueError", gold |-> gold_table]
    ELSE [raised |-> "no",
          gold |-> Append(gold_table,
                          GoldRecord(silver_id, SilverById(silver_table, silver_id)[1]))]

(***************************************************************************)
(* BaseScraper.scrape_players (scrapers.py:59-87).                         *)
(* scrape_player is the adapter: it returns a profile, returns None, or    *)
(* raises (tenacity's RetryError, see below).                              *)
(***************************************************************************)
ScrapeOutcomes == {"profile", "none", "raise"}

\* scrapers.py:76-78  if profile: profiles.append(profile)
CollectProfile(ps, id, outcome) ==
    IF outcome = "profile" THEN Append(ps, id) ELSE ps

\* variant: the per-item try / except is missing, a raise leaves the loop
ScrapeNextPcNoCatch(outcome) ==
    IF outcome = "raise" THEN "Raised" ELSE "scrape_players"

\* scrapers.py:74-80  try / except Exception: the loop goes on after a raise
ScrapeNextPc(outcome) == "scrape_players"

\* variant: the wait follows every item, the last one included
RateLimitAfterEveryItem(k, n) ==
    << Call("scrape_players", "sleep", << rate_limit_delay >>, "ok") >>

\* scrapers.py:83-84  if i < len(identifiers) - 1: await asyncio.sleep(...)
RateLimit(k, n) ==
    IF k < n - 1
    THEN << Call("scrape_players", "sleep", << rate_limit_delay >>, "ok") >>
    ELSE << >>

(***************************************************************************)
(* The adapters' scrape_player is wrapped by tenacity (scrapers.py:95 and  *)
(* 169): @retry(stop=stop_after_attempt(3), wait=wait_exponential(         *)
(* multiplier=1, min=2, max=10)).  The body catches what goes wrong after  *)
(* the page was created and returns None (scrapers.py:157-159), so an      *)
(* attempt raises when create_page (or page.close) raises; tenacity then   *)
(* retries, and raises RetryError once the stop condition holds.           *)
(***************************************************************************)
max_attempt_number == 3
wait_multiplier == 1
wait_min == 2
wait_max == 10

\* the state of a call that starts: first attempt, nothing slept
NoRetry == [attempt_number |-> 1, upcoming_sleep |-> 0]

\* variant: no stop condition
stop_never(attempt_number) == FALSE

\* stop_after_attempt(3): stop once attempt_number >= max_attempt_number
stop_after_attempt(attempt_number) == attempt_number >= max_attempt_number

Max(a, b) == IF a > b THEN a ELSE b

\* wait_exponential: max(min, min(multiplier * 2 ** (attempt_number - 1), max))
wait_exponential(attempt_number) ==
    Max(wait_min, Min(wait_multiplier * 2 ^ (attempt_number - 1), wait_max))

\* an attempt raised and the stop condition does not hold: sleep, try again
ScrapePlayerRetry ==
    /\ pc = "scrape_players"
    /\ i < Len(identifiers)
    /\ retry_state.attempt_number < MaxAttempts
    /\ ~stop_after_attempt(retry_state.attempt_number)
    /\ retry_state' = [attempt_number |-> retry_state.attempt_number + 1,
                       upcoming_sleep |-> wait_exponential(retry_state.attempt_number)]
    /\ UNCHANGED << entry, pc, identifiers, i, profiles, silver, gold,
                    players, idx, inserted_count, silver_players,
                    promoted_count, synced_count, error_count, calls, input,
                    output, bronze, open_pages, embedVars, proxyVars >>

\* scrapers.py:71-84  one turn of the loop, from the attempt of scrape_player
\* that decides the item: it returned, or it raised with the stop condition
\* reached (RetryError)
ScrapePlayersStep ==
    /\ pc = "scrape_players"
    /\ i < Len(identifiers)
    /\ \E outcome \in ScrapeOutcomes :
         LET id == identifiers[i + 1] IN
         /\ outcome = "raise" => stop_after_attempt(retry_state.attempt_number)
         /\ calls' = calls \o << Call("scrape_players", "scrape_player", << id >>, outcome) >>
                           \o (IF ScrapeNextPc(outcome) = "scrape_players"
                               THEN RateLimit(i, Len(identifiers))
                               ELSE << >>)
         /\ profiles' = CollectProfile(profiles, id, outcome)
         /\ pc' = ScrapeNextPc(outcome)
    /\ i' = i + 1
    /\ retry_state' = NoRetry
    /\ UNCHANGED << entry, identifiers, silver, gold, players, idx,
                    inserted_count, silver_players, promoted_count,
                    synced_count, input, output, error_count, bronze,
                    open_pages, embedVars, proxyVars >>

\* scrapers.py:86-87  return profiles; the caller goes on with its next line
ScrapePlayersReturn ==
    /\ pc = "scrape_players"
    /\ i = Len(identifiers)
    /\ pc' = IF entry = "scrape_players" THEN "Done" ELSE "insert_loop"
    /\ idx' = 0
    /\ UNCHANGED << entry, identifiers, i, profiles, silver, gold, players,
                    inserted_count, silver_players, promoted_count,
                    synced_count, calls, input, output, error_count,
                    retry_state, bronze, open_pages,
                    embedVars, proxyVars >>

(***************************************************************************)
(* GameRadarPipeline.run_scraping_to_bronze (pipeline.py:24-65).           *)
(***************************************************************************)
\* pipeline.py:38-42  create_scraper and async with scraper: (browser launch)
RunScrapingToBronzeEnter ==
    /\ pc = "start"
    /\ \E ok \in BOOLEAN :
         /\ calls' = Append(calls, Call("run_scraping_to_bronze", "launch_browser", << >>,
                                        IF ok THEN "ok" ELSE "raise"))
         /\ pc' = IF ok THEN "scrape_players" ELSE "Raised"
    /\ i' = 0
    /\ profiles' = << >>
    /\ inserted_count' = 0
    /\ UNCHANGED << entry, identifiers, silver, gold, players, idx,
                    silver_players, promoted_count, synced_count, input,
                    output, error_count,
                    retry_state, bronze, open_pages,
                    embedVars, proxyVars >>

\* variant: the per-profile try / except is missing
InsertNextPcNoCatch(ok) == IF ok THEN "insert_loop" ELSE "Raised"

\* pipeline.py:48-62  try: insert_bronze_raw; inserted_count += 1; except: log
InsertNextPc(ok) == "insert_loop"

InsertCount(n, ok) == IF ok THEN n + 1 ELSE n

InsertStep ==
    /\ pc = "insert_loop"
    /\ idx < Len(profiles)
    /\ \E ok \in BOOLEAN :
         /\ calls' = Append(calls, Call("run_scraping_to_bronze", "insert_bronze_raw",
                                        << profiles[idx + 1] >>,
                                        IF ok THEN "ok" ELSE "raise"))
         /\ bronze' = insert_bronze_raw(bronze, profiles[idx + 1], ok)
         /\ inserted_count' = InsertCount(inserted_count, ok)
         /\ pc' = InsertNextPc(ok)
    /\ idx' = idx + 1
    /\ UNCHANGED << entry, identifiers, i, profiles, silver, gold, players,
                    silver_players, promoted_count, synced_count, input,
                    output, error_count,
                    retry_state, open_pages, embedVars, proxyVars >>

\* variant: promotion is started before the verification query
AfterBronzeSkipsVerify == "promote_query"

\* pipeline.py:208-214  run_full_pipeline: after run_scraping_to_bronze and
\* the wait comes verify_silver_data
AfterBronze == "verify"

\* pipeline.py:64-65 return inserted_count; pipeline.py:211 asyncio.sleep(2)
InsertReturn ==
    /\ pc = "insert_loop"
    /\ idx = Len(profiles)
    /\ pc' = IF entry = "run_full_pipeline" THEN AfterBronze ELSE "Done"
    /\ calls' = IF entry = "run_full_pipeline"
                THEN Append(calls, Call("run_full_pipeline", "sleep", << >>, "ok"))
                ELSE calls
    /\ UNCHANGED << entry, identifiers, i, profiles, silver, gold, players,
                    idx, inserted_count, silver_players, promoted_count,
                    synced_count, input, output, error_count,
                    retry_state, bronze, open_pages,
                    embedVars, proxyVars >>

(***************************************************************************)
(* BronzeIngestionScraper.insert_to_bronze (bronze_ingestion.py:353-389).  *)
(* players_data is held in profiles.                                       *)
(***************************************************************************)
\* bronze_ingestion.py:382-386  except Exception: error_count += 1; continue
BronzeNextPc(ok) == "insert_to_bronze"

InsertToBronzeStep ==
    /\ pc = "insert_to_bronze"
    /\ idx < Len(profiles)
    /\ \E ok \in BOOLEAN :
         /\ calls' = Append(calls, Call("insert_to_bronze", "insert_bronze_raw",
                                        << profiles[idx + 1] >>,
                                        IF ok THEN "ok" ELSE "raise"))
         /\ bronze' = insert_bronze_raw(bronze, profiles[idx + 1], ok)
         /\ inserted_count' = InsertCount(inserted_count, ok)
         /\ error_count' = IF ok THEN error_count ELSE error_count + 1
         /\ pc' = BronzeNextPc(ok)
    /\ idx' = idx + 1
    /\ UNCHANGED << entry, identifiers, i, profiles, silver, gold, players,
                    silver_players, promoted_count, synced_count, input,
                    output,
                    retry_state, open_pages, embedVars, proxyVars >>

\* bronze_ingestion.py:388-389  return inserted_count; in run_ingestion the
\* summary follows (bronze_ingestion.py:437-448), headed "INGESTA COMPLETADA"
\* at success level whatever the count is
InsertToBronzeReturn ==
    /\ pc = "insert_to_bronze"
    /\ idx = Len(profiles)
    /\ pc' = "Done"
    /\ output' = IF entry = "run_ingestion" THEN "success" ELSE output
    /\ UNCHANGED << entry, identifiers, i, profiles, silver, gold, players,
                    idx, inserted_count, silver_players, promoted_count,
                    synced_count, calls, input, error_count,
                    retry_state, bronze, open_pages,
                    embedVars, proxyVars >>

(***************************************************************************)
(* BronzeIngestionScraper.run_ingestion (bronze_ingestion.py:391-452) with *)
(* scrape_liquipedia_ranking (104-181) and scrape_opgg_ranking (263-351).  *)
(* identifiers holds the rows of the ranking page, profiles is             *)
(* players_data.                                                           *)
(***************************************************************************)
Sources == {"liquipedia", "opgg", "other"}

\* how opening the ranking page can end: browser.new_page raises (outside
\* the try), page.goto raises (caught, the empty list is returned), the page
\* holds no table, or it holds the rows
OpenOutcomes == {"new_page_raises", "goto_raises", "no_table", "rows"}

\* bronze_ingestion.py:143-170 / 300-342: what one row can do.  On
\* Liquipedia the row's cells cannot be read (raises inside the loop's try),
\* it has fewer than two cells, _extract_player_from_cells fails (it catches
\* the exception itself and returns None, lines 259-261) or yields the data.
RowOutcomes(source) ==
    IF source = "liquipedia" THEN {"raise", "few_cells", "none", "data"}
    ELSE {"raise", "data"}

\* bronze_ingestion.py:166-167 / 339-340  except Exception: error_count += 1
RowErrorCount(n, outcome) == IF outcome = "raise" THEN n + 1 ELSE n

\* bronze_ingestion.py:160-161 / 336-337  both grow together
scraped_count == Len(profiles)

\* bronze_ingestion.py:412-425  the source is chosen and the page opened
RunIngestionEnter ==
    /\ pc = "run_ingestion"
    /\ IF input.source = "other"
       THEN \* ValueError (line 425), logged and re-raised (450-452)
            /\ pc' = "Raised"
            /\ calls' = calls
       ELSE \E outcome \in OpenOutcomes :
              /\ calls' = Append(calls, Call("run_ingestion", "open_page", << >>, outcome))
              /\ pc' = CASE outcome = "new_page_raises" -> "Raised"
                          [] outcome = "rows" -> "ranking_rows"
                          [] OTHER -> "ranking_return"
    /\ i' = 0
    /\ profiles' = << >>
    /\ UNCHANGED << entry, identifiers, silver, gold, players, idx,
                    inserted_count, silver_players, promoted_count,
                    synced_count, input, output, error_count,
                    retry_state, bronze, open_pages,
                    embedVars, proxyVars >>

\* bronze_ingestion.py:143-170 / 300-342  one turn of the row loop
RankingRowStep ==
    /\ pc = "ranking_rows"
    /\ i < Len(identifiers)
    /\ \E outcome \in RowOutcomes(input.source) :
         LET id == identifiers[i + 1] IN
         /\ calls' = Append(calls, Call("run_ingestion", "extract_row", << id >>, outcome))
         /\ profiles' = IF outcome = "data" THEN Append(profiles, id) ELSE profiles
         /\ error_count' = RowErrorCount(error_count, outcome)
    /\ i' = i + 1
    /\ UNCHANGED << entry, pc, identifiers, silver, gold, players, idx,
                    inserted_count, silver_players, promoted_count,
                    synced_count, input, output,
                    retry_state, bronze, open_pages,
                    embedVars, proxyVars >>

\* bronze_ingestion.py:427-429  if not players_data: warning; return
AfterRanking(data) == IF data = << >> THEN "Done" ELSE "insert_to_bronze"

\* bronze_ingestion.py:181 / 351 return players_data, then 427-435
RankingReturn ==
    /\ \/ pc = "ranking_return"
       \/ pc = "ranking_rows" /\ i = Len(identifiers)
    /\ pc' = AfterRanking(profiles)
    /\ output' = IF AfterRanking(profiles) = "Done" THEN "warning" ELSE output
    /\ idx' = 0
    /\ inserted_count' = 0
    /\ UNCHANGED << entry, identifiers, i, profiles, silver, gold, players,
                    silver_players, promoted_count, synced_count, calls,
                    input, error_count,
                    retry_state, bronze, open_pages,
                    embedVars, proxyVars >>

(***************************************************************************)
(* SupabaseClient.get_players_by_country (supabase_client.py:109-137):     *)
(* the rows of silver_players up to limit, or the exception re-raised.     *)
(***************************************************************************)
get_players_by_country(limit) == Take(silver, limit)

Ids(rows) == [k \in 1..Len(rows) |-> rows[k].id]

QueryCall(by, ok) ==
    Call(by, "get_players_by_country", << >>, IF ok THEN "ok" ELSE "raise")

(***************************************************************************)
(* GameRadarPipeline.verify_silver_data (pipeline.py:67-97).               *)
(***************************************************************************)
\* pipeline.py:91-95  player['stats'].get(...) on the first five rows
SummaryRaises(rows) ==
    \E k \in 1..Len(Take(rows, SummaryRows)) : ~rows[k].stats_present

VerifySilverData ==
    /\ pc = "verify"
    /\ \E ok \in BOOLEAN :
         /\ calls' = Append(calls, QueryCall("verify_silver_data", ok))
         /\ IF ok /\ ~SummaryRaises(get_players_by_country(VerifyLimit))
            THEN /\ silver_players' = get_players_by_country(VerifyLimit)
                 /\ pc' = "promote_query"
            ELSE /\ silver_players' = silver_players
                 /\ pc' = "Raised"
    /\ UNCHANGED << entry, identifiers, i, profiles, silver, gold, players,
                    idx, inserted_count, promoted_count, synced_count,
                    input, output, error_count,
                    retry_state, bronze, open_pages,
                    embedVars, proxyVars >>

(***************************************************************************)
(* GameRadarPipeline.promote_best_to_gold (pipeline.py:99-135).            *)
(***************************************************************************)
\* run_full_pipeline passes min_win_rate=55.0 (pipeline.py:217)
MinWinRate ==
    IF entry = "run_full_pipeline" THEN DefaultMinWinRate
    ELSE input.min_win_rate

\* pipeline.py:114  players = self.supabase.get_players_by_country("KR", ...)
PromoteQuery ==
    /\ pc = "promote_query"
    /\ \E ok \in BOOLEAN :
         /\ calls' = Append(calls, QueryCall("promote_best_to_gold", ok))
         /\ pc' = IF ok THEN "promote_loop" ELSE "Raised"
         /\ players' = IF ok THEN get_players_by_country(PromoteLimit)
                       ELSE players
    /\ idx' = 0
    /\ promoted_count' = 0
    /\ UNCHANGED << entry, identifiers, i, profiles, silver, gold,
                    inserted_count, silver_players, synced_count, input,
                    output, error_count,
                    retry_state, bronze, open_pages,
                    embedVars, proxyVars >>

\* pipeline.py:120  player['stats'].get('win_rate', 0)
StatsGetWinRate(player) ==
    IF player.has_win_rate THEN player.win_rate ELSE 0

\* variant: the threshold is exclusive
QualifiesStrict(win_rate, threshold) == win_rate > threshold

\* pipeline.py:122  if win_rate >= min_win_rate:
Qualifies(win_rate, threshold) == win_rate >= threshold

\* variant: the per-record try / except is missing
PromoteNextPcNoCatch(ok) == IF ok THEN "promote_loop" ELSE "Raised"

\* pipeline.py:123-132  try: promote_to_gold; except Exception: log
PromoteNextPc(ok) == "promote_loop"

\* pipeline.py:129  promoted_count += 1, after the call returned
PromoteCount(n, ok) == IF ok THEN n + 1 ELSE n

PromoteStep ==
    /\ pc = "promote_loop"
    /\ idx < Len(players)
    /\ LET player == players[idx + 1] IN
       IF ~player.stats_present
       THEN \* None.get raises AttributeError, which nothing here catches
            /\ pc' = "Raised"
            /\ UNCHANGED << calls, gold, promoted_count >>
       ELSE IF Qualifies(StatsGetWinRate(player), MinWinRate)
       THEN \E ok \in BOOLEAN :
              LET result == promote_to_gold(silver, gold, player.id, ok)
                  returned == result.raised = "no"
              IN
              /\ calls' = Append(calls, Call("promote_best_to_gold", "promote_to_gold",
                                             << player.id >>,
                                             IF returned THEN "ok" ELSE "raise"))
              /\ gold' = result.gold
              /\ promoted_count' = PromoteCount(promoted_count, returned)
              /\ pc' = PromoteNextPc(returned)
       ELSE /\ pc' = "promote_loop"
            /\ UNCHANGED << calls, gold, promoted_count >>
    /\ idx' = idx + 1
    /\ UNCHANGED << entry, identifiers, i, profiles, silver, players,
                    inserted_count, silver_players, synced_count, input,
                    output, error_count,
                    retry_state, bronze, open_pages,
                    embedVars, proxyVars >>

\* pipeline.py:134-135  return promoted_count; pipeline.py:220 if sync_to_airtable
PromoteReturn ==
    /\ pc = "promote_loop"
    /\ idx = Len(players)
    /\ pc' = IF entry = "run_full_pipeline" /\ input.sync_to_airtable
             THEN "export_query" ELSE "Done"
    /\ UNCHANGED << entry, identifiers, i, profiles, silver, gold, players,
                    idx, inserted_count, silver_players, promoted_count,
                    synced_count, calls, input, output, error_count,
                    retry_state, bronze, open_pages,
                    embedVars, proxyVars >>

(***************************************************************************)
(* GameRadarPipeline.sync_to_airtable (pipeline.py:137-191).               *)
(***************************************************************************)
\* pipeline.py:152  players = self.supabase.get_players_by_country(...)
ExportQuery ==
    /\ pc = "export_query"
    /\ \E ok \in BOOLEAN :
         /\ calls' = Append(calls, QueryCall("sync_to_airtable", ok))
         /\ pc' = IF ok THEN "export_loop" ELSE "Raised"
         /\ players' = IF ok THEN get_players_by_country(ExportLimit)
                       ELSE players
    /\ idx' = 0
    /\ synced_count' = 0
    /\ UNCHANGED << entry, identifiers, i, profiles, silver, gold,
                    inserted_count, silver_players, promoted_count, input,
                    output, error_count,
                    retry_state, bronze, open_pages,
                    embedVars, proxyVars >>

\* variant: the slice is one row too long
BatchOffByOne(rows, start) ==
    SubSeq(rows, start + 1, Min(start + batch_size + 1, Len(rows)))

\* pipeline.py:160  batch = players[i:i+batch_size]
Batch(rows, start) == SubSeq(rows, start + 1, Min(start + batch_size, Len(rows)))

\* pipeline.py:165-180  PlayerProfile(...) raises for a row that fails validation
Convertible(row) == row.stats_present /\ row.has_win_rate /\ row.fields_ok

\* pipeline.py:163-180  the rows of the batch that converted, in order
ConvertBatch(batch) == SelectSeq(batch, Convertible)

\* variant: the per-chunk try / except is missing
ExportNextPcNoCatch(ok) == IF ok THEN "export_loop" ELSE "Raised"

\* pipeline.py:184-188  try: send_players_batch; except Exception: log
ExportNextPc(ok) == "export_loop"

\* pipeline.py:186  synced_count += len(profiles), after the call returned
SyncedCount(n, sent, ok) == IF ok THEN n + Len(sent) ELSE n

ExportStep ==
    /\ pc = "export_loop"
    /\ idx < Len(players)
    /\ LET sent == ConvertBatch(Batch(players, idx)) IN
       IF sent # << >>
       THEN \E ok \in BOOLEAN :
              /\ calls' = Append(calls, Call("sync_to_airtable", "send_players_batch",
                                             Ids(sent),
                                             IF ok THEN "ok" ELSE "raise"))
              /\ synced_count' = SyncedCount(synced_count, sent, ok)
              /\ pc' = ExportNextPc(ok)
       ELSE /\ pc' = "export_loop"
            /\ UNCHANGED << calls, synced_count >>
    /\ idx' = idx + batch_size
    /\ UNCHANGED << entry, identifiers, i, profiles, silver, gold, players,
                    inserted_count, silver_players, promoted_count, input,
                    output, error_count,
                    retry_state, bronze, open_pages,
                    embedVars, proxyVars >>

\* pipeline.py:190-191  return synced_count; pipeline.py:223-231 the summary
ExportReturn ==
    /\ pc = "export_loop"
    /\ idx >= Len(players)
    /\ pc' = "Done"
    /\ UNCHANGED << entry, identifiers, i, profiles, silver, gold, players,
                    idx, inserted_count, silver_players, promoted_count,
                    synced_count, calls, input, output, error_count,
                    retry_state, bronze, open_pages,
                    embedVars, proxyVars >>

(***************************************************************************)
(* country_detector.py.                                                    *)
(*                                                                         *)
(* An Optional[str] argument is << >> for None and << v >> for a value.    *)
(* A text or a url is the sequence of the pieces it is made of (a flag     *)
(* glyph, a word, a path segment); "piece in text" is Python's substring   *)
(* test.  A server is a string.                                            *)
(***************************************************************************)
Null == << >>
Some(v) == << v >>

\* models.py:11-22  CountryCode
UNKNOWN == "XX"

\* country_detector.py:10-31  SERVER_TO_COUNTRY
SERVER_TO_COUNTRY ==
    [ kr |-> "KR", vn |-> "VN", ph |-> "PH", sg |-> "VN", th |-> "TH",
      tw |-> "TW", jp |-> "JP", in |-> "IN", korea |-> "KR",
      mumbai |-> "IN", singapore |-> "VN", hongkong |-> "CN",
      tokyo |-> "JP", sea |-> "VN", asia |-> UNKNOWN ]

\* country_detector.py:35-45  FLAG_TO_COUNTRY, in insertion order
FLAG_TO_COUNTRY ==
    << << "flag_IN", "IN" >>, << "flag_KR", "KR" >>, << "flag_VN", "VN" >>,
       << "flag_CN", "CN" >>, << "flag_PH", "PH" >>, << "flag_TH", "TH" >>,
       << "flag_JP", "JP" >>, << "flag_TW", "TW" >>, << "flag_ID", "ID" >> >>

\* country_detector.py:49-65  COUNTRY_NAME_TO_CODE, in insertion order
COUNTRY_NAME_TO_CODE ==
    << << "india", "IN" >>, << "korea", "KR" >>, << "south korea", "KR" >>,
       << "vietnam", "VN" >>, << "china", "CN" >>, << "philippines", "PH" >>,
       << "thailand", "TH" >>, << "japan", "JP" >>, << "taiwan", "TW" >>,
       << "indonesia", "ID" >>, << "bharat_devanagari", "IN" >>,
       << "hanguk_hangul", "KR" >>, << "viet nam", "VN" >>,
       << "zhongguo_han", "CN" >> >>

\* str.lower() on the pieces used here
Lower(piece) ==
    CASE piece = "China" -> "china"
      [] piece = "Taiwan" -> "taiwan"
      [] piece = "South Korea" -> "south korea"
      [] piece = "/KR/" -> "/kr/"
      [] piece = "KR " -> "kr "
      [] piece = "Mumbai" -> "mumbai"
      [] OTHER -> piece

\* str.strip() on the servers used here
Strip(str) ==
    CASE str = "kr " -> "kr"
      [] str = " " -> ""
      [] OTHER -> str

LowerText(text) == [k \in 1..Len(text) |-> Lower(text[k])]

\* needle in piece, for the needles of the tables
SubstringOf(needle, piece) ==
    \/ needle = piece
    \/ needle = "korea" /\ piece = "south korea"

\* needle in text
In(needle, text) == \E k \in 1..Len(text) : SubstringOf(needle, text[k])

\* the value of the first entry of an insertion-ordered table whose key is
\* in the text, or None
RECURSIVE FirstIn(_, _)
FirstIn(table, text) ==
    IF table = << >> THEN None
    ELSE IF In(Head(table)[1], text) THEN Head(table)[2]
    ELSE FirstIn(Tail(table), text)

\* country_detector.py:68-81
detect_country_from_flag(text) == FirstIn(FLAG_TO_COUNTRY, text)

\* country_detector.py:84-95  SERVER_TO_COUNTRY.get(server.lower().strip())
detect_country_from_server(server) ==
    LET server_lower == Strip(Lower(server)) IN
    IF server_lower \in DOMAIN SERVER_TO_COUNTRY
    THEN SERVER_TO_COUNTRY[server_lower] ELSE None

\* country_detector.py:98-122
detect_country_from_url(url) ==
    LET url_lower == LowerText(url) IN
    IF In("/kr/", url_lower) \/ In("kr.op.gg", url_lower) THEN "KR"
    ELSE IF In("/vn/", url_lower) \/ In("vn.op.gg", url_lower) THEN "VN"
    ELSE IF In("/in/", url_lower) \/ In(".in/", url_lower) THEN "IN"
    ELSE IF In("/cn/", url_lower) \/ In(".cn/", url_lower) THEN "CN"
    ELSE IF In("/jp/", url_lower) \/ In(".jp/", url_lower) THEN "JP"
    ELSE None

\* country_detector.py:125-141
detect_country_from_name(text) ==
    FirstIn(COUNTRY_NAME_TO_CODE, LowerText(text))

\* Python's truth value of an Optional[str]: None and "" are false
TruthyText(opt) == opt # Null /\ opt[1] # << >>
TruthyStr(opt) == opt # Null /\ opt[1] # ""

\* Python's truth value of an Optional[CountryCode]: every member of the
\* enum is a non-empty string, UNKNOWN ("XX") included
TruthyCountry(c) == c # None

\* variant: the url is consulted before the server
detect_country_url_first(profile_text, server, url, additional_text) ==
    IF TruthyText(profile_text)
       /\ TruthyCountry(detect_country_from_flag(profile_text[1]))
    THEN detect_country_from_flag(profile_text[1])
    ELSE IF TruthyText(profile_text)
       /\ TruthyCountry(detect_country_from_name(profile_text[1]))
    THEN detect_country_from_name(profile_text[1])
    ELSE IF TruthyText(url)
       /\ TruthyCountry(detect_country_from_url(url[1]))
    THEN detect_country_from_url(url[1])
    ELSE IF TruthyStr(server)
       /\ TruthyCountry(detect_country_from_server(server[1]))
    THEN detect_country_from_server(server[1])
    ELSE IF TruthyText(additional_text)
       /\ TruthyCountry(detect_country_from_flag(additional_text[1]))
    THEN detect_country_from_flag(additional_text[1])
    ELSE IF TruthyText(additional_text)
       /\ TruthyCountry(detect_country_from_name(additional_text[1]))
    THEN detect_country_from_name(additional_text[1])
    ELSE UNKNOWN

\* country_detector.py:144-203
detect_country(profile_text, server, url, additional_text) ==
    IF TruthyText(profile_text)
       /\ TruthyCountry(detect_country_from_flag(profile_text[1]))
    THEN detect_country_from_flag(profile_text[1])
    ELSE IF TruthyText(profile_text)
       /\ TruthyCountry(detect_country_from_name(profile_text[1]))
    THEN detect_country_from_name(profile_text[1])
    ELSE IF TruthyStr(server)
       /\ TruthyCountry(detect_country_from_server(server[1]))
    THEN detect_country_from_server(server[1])
    ELSE IF TruthyText(url)
       /\ TruthyCountry(detect_country_from_url(url[1]))
    THEN detect_country_from_url(url[1])
    ELSE IF TruthyText(additional_text)
       /\ TruthyCountry(detect_country_from_flag(additional_text[1]))
    THEN detect_country_from_flag(additional_text[1])
    ELSE IF TruthyText(additional_text)
       /\ TruthyCountry(detect_country_from_name(additional_text[1]))
    THEN detect_country_from_name(additional_text[1])
    ELSE UNKNOWN

\* a call detect_country(profile_text, server, url, additional_text)
DetectCountry ==
    /\ pc = "detect_country"
    /\ output' = detect_country(input.profile_text, input.server, input.url,
                                input.additional_text)
    /\ pc' = "Done"
    /\ UNCHANGED << entry, identifiers, i, profiles, silver, gold, players,
                    idx, inserted_count, silver_players, promoted_count,
                    synced_count, calls, input, error_count,
                    retry_state, bronze, open_pages,
                    embedVars, proxyVars >>

(***************************************************************************)
(* skill_vector_embeddings.py.                                             *)
(*                                                                         *)
(* A value of the stats map is absent, null, a non-numeric text or a       *)
(* (finite) number; numbers are held in tenths (54.9 is 549).  A quotient  *)
(* is the pair << numerator, denominator >> with a positive denominator.   *)
(* A component of the vector is held in millionths, the six decimals that  *)
(* round(x, 6) keeps.                                                      *)
(***************************************************************************)
Absent == [kind |-> "absent", num |-> 0]
JsonNull == [kind |-> "null", num |-> 0]
Text == [kind |-> "text", num |-> 0]
Num(n) == [kind |-> "num", num |-> n]

Million == 1000000

\* skill_vector_embeddings.py:23-28  float(raw), float(default) on None, the
\* default when float() raises; default is 0.0 at every call
_get_stat(stats, key) ==
    IF stats[key].kind = "num" THEN stats[key].num ELSE 0

\* n / d rounded to the nearest integer, for n >= 0 and d > 0
RoundDiv(n, d) == (2 * n + d) \div (2 * d)

\* skill_vector_embeddings.py:19-20 and round(., 6): max(0, min(1, num/den))
clamp(num, den) ==
    IF num <= 0 THEN 0
    ELSE IF num >= den THEN Million
    ELSE RoundDiv(num * Million, den)

\* q / k for a quotient q and a positive integer k
Over(q, k) == << q[1], q[2] * k >>

\* a / b as a quotient with a positive denominator, for b # 0
Quot(a, b) == IF b > 0 THEN << a, b >> ELSE << -a, -b >>

Returned(v) == [raised |-> "no", vector |-> v]
Raise(e) == [raised |-> e, vector |-> << >>]

\* skill_vector_embeddings.py:39-43  the explicit field, else the heuristic;
\* "error" when the division by deaths_avg + 1.0 is a division by zero
Aggressiveness(stats) ==
    IF stats.aggressiveness.kind \in {"absent", "null"}
    THEN LET kills_avg == _get_stat(stats, "kills_avg")
             deaths_avg == _get_stat(stats, "deaths_avg")
         IN IF kills_avg > 0
            THEN IF deaths_avg + 10 = 0 THEN [kind |-> "error", q |-> << 0, 1 >>]
                 ELSE [kind |-> "num", q |-> Quot(kills_avg, deaths_avg + 10)]
            ELSE [kind |-> "num", q |-> << 0, 1 >>]
    ELSE [kind |-> stats.aggressiveness.kind,
          q |-> << stats.aggressiveness.num, 10 >>]

\* skill_vector_embeddings.py:46-49
Versatility(stats, top_champions) ==
    IF stats.versatility.kind \in {"absent", "null"}
    THEN LET diversity == IF top_champions.is_list THEN top_champions.len
                          ELSE 0
         IN [kind |-> "num", q |-> << diversity, 3 >>]
    ELSE [kind |-> stats.versatility.kind,
          q |-> << stats.versatility.num, 10 >>]

\* skill_vector_embeddings.py:31-62
compute_skill_vector(stats, top_champions) ==
    LET win_rate == _get_stat(stats, "win_rate")
        kda == _get_stat(stats, "kda")
        aggressiveness == Aggressiveness(stats)
        versatility == Versatility(stats, top_champions)
    IN IF aggressiveness.kind = "error" THEN Raise("ZeroDivisionError")
       ELSE IF aggressiveness.kind = "text" THEN Raise("ValueError")
       ELSE IF versatility.kind = "text" THEN Raise("ValueError")
       ELSE Returned(<< clamp(kda, 100),
                        clamp(win_rate, 1000),
                        clamp(Over(aggressiveness.q, 5)[1],
                              Over(aggressiveness.q, 5)[2]),
                        clamp(versatility.q[1], versatility.q[2]) >>)

\* a call compute_skill_vector(stats, top_champions)
ComputeSkillVector ==
    /\ pc = "compute_skill_vector"
    /\ output' = compute_skill_vector(input.stats, input.top_champions)
    /\ pc' = "Done"
    /\ UNCHANGED << entry, identifiers, i, profiles, silver, gold, players,
                    idx, inserted_count, silver_players, promoted_count,
                    synced_count, calls, input, error_count,
                    retry_state, bronze, open_pages,
                    embedVars, proxyVars >>

(***************************************************************************)
(* embedding_generator.main (embedding_generator.py:229-318) with          *)
(* fetch_players_without_embeddings (108-158), generate_embeddings_batch   *)
(* (64-92) and upsert_embedding_to_gold (161-226).  A row of               *)
(* gold_analytics holds the player it belongs to and whether its           *)
(* embedding_vector is set.                                                *)
(***************************************************************************)
\* embedding_generator.py:21-22, the delay in tenths of a second
BATCH_SIZE == 50
OPENAI_RATE_LIMIT_DELAY == 5
\* embedding_generator.py:230  limit: int = 100
EmbedLimit == 100

\* what the embedding run leaves alone
notEmbedVars == << entry, identifiers, i, profiles, silver, gold, bronze,
                   open_pages, proxyVars,
                  inserted_count, silver_players, promoted_count,
                  synced_count, error_count, retry_state, input >>

GoldRow(player_id, embedding) == [player_id |-> player_id, embedding |-> embedding]

\* embedding_generator.py:129-151  the normalized rows, up to 2 * limit, that
\* have no analytics row with a vector, cut to limit
fetch_players_without_embeddings(limit) ==
    LET players_with_embeddings ==
            { gold_analytics[k].player_id : k \in
                { j \in 1..Len(gold_analytics) : gold_analytics[j].embedding # "null" } }
        all_players == Take(silver, limit * 2)
    IN  Take(SelectSeq(all_players, LAMBDA p : p.id \notin players_with_embeddings),
             limit)

\* embedding_generator.py:253-274  the api key, the clients, the fetch
EmbedFetch ==
    /\ pc = "embed_main"
    /\ \E outcome \in {"no_api_key", "fetch_raises", "ok"} :
         /\ calls' = IF outcome = "no_api_key" THEN calls
                     ELSE Append(calls, Call("main", "fetch_players", << >>,
                                             IF outcome = "ok" THEN "ok" ELSE "raise"))
         /\ players' = IF outcome = "ok"
                       THEN fetch_players_without_embeddings(EmbedLimit)
                       ELSE << >>
         /\ pc' = IF players' = << >> THEN "Done" ELSE "embed_loop"
    /\ idx' = 0
    /\ total_success' = 0
    /\ total_errors' = 0
    /\ UNCHANGED << notEmbedVars, output, gold_analytics, pending, embeddings >>

\* variant: consecutive batches share a player
EmbedBatchOverlapping(rows, start, size) ==
    SubSeq(rows, start + 1, Min(start + size + 1, Len(rows)))

\* embedding_generator.py:283  batch = players[i:i+batch_size]
EmbedBatch(rows, start, size) == SubSeq(rows, start + 1, Min(start + size, Len(rows)))

\* embedding_generator.py:35-44  stats = player.get("stats", {}) is None for
\* a null column, and stats.get raises AttributeError
DescriptionRaises(rows) == \E k \in 1..Len(rows) : ~rows[k].stats_present

\* embedding_generator.py:80-92  the vectors of the response, or [] after
\* any exception; the provider may answer with fewer or more than asked
ProviderAnswers(n) == {0, n, n + 1}

\* variant: a batch is saved when at least one vector came back
MismatchOnlyWhenEmpty(returned, n) == returned = 0

\* embedding_generator.py:295  if len(embeddings) != len(batch):
Mismatch(returned, n) == returned # n

\* embedding_generator.py:282-298  one batch: descriptions, provider call,
\* and on a mismatch the errors are counted and the loop continues
EmbedBatchStep ==
    /\ pc = "embed_loop"
    /\ idx < Len(players)
    /\ LET b == EmbedBatch(players, idx, input.batch_size) IN
       IF DescriptionRaises(b)
       THEN /\ pc' = "Raised"
            /\ UNCHANGED << calls, embeddings, total_errors, idx, pending >>
       ELSE \E returned \in ProviderAnswers(Len(b)) :
              /\ calls' = Append(calls, Call("main", "embeddings.create", Ids(b),
                                             returned))
              /\ embeddings' = returned
              /\ IF Mismatch(returned, Len(b))
                 THEN /\ total_errors' = total_errors + Len(b)
                      /\ idx' = idx + input.batch_size
                      /\ pending' = << >>
                      /\ pc' = "embed_loop"
                 ELSE /\ pending' = Ids(b)
                      /\ pc' = "upsert_loop"
                      /\ UNCHANGED << total_errors, idx >>
    /\ UNCHANGED << notEmbedVars, players, output, gold_analytics, total_success >>

\* variant: the dry_run flag is not looked at
DryRunIgnored(dry_run) == FALSE

\* embedding_generator.py:184-187 and skill_vector_embeddings.py:99-106
\* if dry_run: log, return True, before anything is sent to the store
DryRunReturns(dry_run) == dry_run

\* embedding_generator.py:190-192  select("id").eq("player_id", ...).limit(1)
HasAnalyticsRow(rows, player_id) ==
    \E k \in 1..Len(rows) : rows[k].player_id = player_id

\* variant: a row is inserted whether or not the player has one
UpsertRowAlwaysInsert(rows, player_id) == Append(rows, GoldRow(player_id, "vec"))

\* embedding_generator.py:193-221  update the player's row if there is one,
\* else insert one
UpsertRow(rows, player_id) ==
    IF \E k \in 1..Len(rows) : rows[k].player_id = player_id
    THEN LET first == CHOOSE k \in 1..Len(rows) :
                        /\ rows[k].player_id = player_id
                        /\ \A j \in 1..(k - 1) : rows[j].player_id # player_id
         IN  [rows EXCEPT ![first].embedding = "vec"]
    ELSE Append(rows, GoldRow(player_id, "vec"))

\* embedding_generator.py:301-306 with upsert_embedding_to_gold (179-226):
\* one player of the batch is saved; dry_run returns True before the store
\* is touched; an exception of the store is caught and gives False.  The
\* call is recorded with the write it issued (update or insert)
UpsertStep ==
    /\ pc = "upsert_loop"
    /\ pending # << >>
    /\ LET player_id == Head(pending) IN
       IF DryRunReturns(input.dry_run)
       THEN /\ total_success' = total_success + 1
            /\ UNCHANGED << calls, gold_analytics, total_errors >>
       ELSE \E ok \in BOOLEAN :
              /\ calls' = Append(calls, Call("upsert_embedding_to_gold", "gold_analytics",
                                             << player_id >>,
                                             IF ~ok THEN "raise"
                                             ELSE IF HasAnalyticsRow(gold_analytics, player_id)
                                             THEN "update" ELSE "insert"))
              /\ gold_analytics' = IF ok THEN UpsertRow(gold_analytics, player_id)
                                   ELSE gold_analytics
              /\ total_success' = IF ok THEN total_success + 1 ELSE total_success
              /\ total_errors' = IF ok THEN total_errors ELSE total_errors + 1
    /\ pending' = Tail(pending)
    /\ UNCHANGED << notEmbedVars, pc, players, idx, output, embeddings >>

\* embedding_generator.py:308-311  the wait before the next batch
EmbedBatchEnd ==
    /\ pc = "upsert_loop"
    /\ pending = << >>
    /\ calls' = IF idx + input.batch_size < Len(players)
                THEN Append(calls, Call("main", "sleep", << OPENAI_RATE_LIMIT_DELAY >>, "ok"))
                ELSE calls
    /\ idx' = idx + input.batch_size
    /\ pc' = "embed_loop"
    /\ UNCHANGED << notEmbedVars, players, output, embedVars >>

\* embedding_generator.py:313-321  the summary is logged
EmbedReturn ==
    /\ pc = "embed_loop"
    /\ idx >= Len(players)
    /\ pc' = "Done"
    /\ UNCHANGED << notEmbedVars, players, idx, calls, output, embedVars >>

(***************************************************************************)
(* update_skill_vector (skill_vector_embeddings.py:91-130).  Of a row of   *)
(* gold_analytics the columns it reads and writes are kept: player_id,     *)
(* the nickname + game + country_code triple (identity) and skill_vector.  *)
(***************************************************************************)
AnalyticsRow(player_id, identity, skill_vector) ==
    [player_id |-> player_id, identity |-> identity, skill_vector |-> skill_vector]

\* .update({"skill_vector": payload}).eq(column, value).execute(): the rows
\* that match, which is what response.data holds
MatchedBy(rows, column, value) ==
    { k \in 1..Len(rows) : rows[k][column] = value }

ApplyUpdate(rows, matched) ==
    [k \in 1..Len(rows) |->
        IF k \in matched THEN [rows[k] EXCEPT !.skill_vector = "vec"] ELSE rows[k]]

\* variant: the fallback update is issued whatever the first one matched
NeedsFallbackAlways(matched) == TRUE

\* skill_vector_embeddings.py:116-117  if response.data: return True
NeedsFallback(matched) == matched = {}

UpdateCall(op, key, matched) ==
    Call("update_skill_vector", op, << key >>, IF matched = {} THEN "none" ELSE "matched")

Bool(b) == IF b THEN "True" ELSE "False"

UpdateSkillVector ==
    /\ pc = "update_skill_vector"
    /\ LET player == input.player
           by_id == MatchedBy(gold_analytics, "player_id", player.id)
           after_id == ApplyUpdate(gold_analytics, by_id)
           by_identity == MatchedBy(after_id, "identity", player.identity)
       IN
       IF DryRunReturns(input.dry_run)
       THEN \* lines 99-106: logged, nothing sent to the store
            /\ output' = Bool(TRUE)
            /\ pc' = "Done"
            /\ UNCHANGED << calls, gold_analytics >>
       ELSE \/ \* the first execute() raises; nothing here catches it
               /\ calls' = Append(calls, Call("update_skill_vector", "update_by_player_id",
                                              << player.id >>, "raise"))
               /\ pc' = "Raised"
               /\ UNCHANGED << output, gold_analytics >>
            \/ /\ ~NeedsFallback(by_id)
               /\ calls' = Append(calls, UpdateCall("update_by_player_id", player.id, by_id))
               /\ gold_analytics' = after_id
               /\ output' = Bool(TRUE)
               /\ pc' = "Done"
            \/ /\ NeedsFallback(by_id)
               /\ calls' = calls \o << UpdateCall("update_by_player_id", player.id, by_id),
                                       UpdateCall("update_by_identity", player.identity,
                                                  by_identity) >>
               /\ gold_analytics' = ApplyUpdate(after_id, by_identity)
               /\ output' = Bool(by_identity # {})
               /\ pc' = "Done"
            \/ /\ NeedsFallback(by_id)
               /\ calls' = calls \o << UpdateCall("update_by_player_id", player.id, by_id),
                                       Call("update_skill_vector", "update_by_identity",
                                            << player.identity >>, "raise") >>
               /\ gold_analytics' = after_id
               /\ pc' = "Raised"
               /\ output' = output
    /\ UNCHANGED << notEmbedVars, players, idx, pending, embeddings,
                    total_success, total_errors >>

(***************************************************************************)
(* PlayerProfile(top_champions=...) (models.py:77-82 and 101-106), the     *)
(* other fields being valid.  The field's own constraints (min_items,      *)
(* max_items) belong to its type and are checked when the value is         *)
(* validated against the type; validate_top_champions is a validator       *)
(* without pre=True and runs on the value that passed them.                *)
(***************************************************************************)
min_items == 1
max_items == 3

\* models.py:101-106  if len(v) > 3: return v[:3]
validate_top_champions(v) == IF Len(v) > 3 THEN Take(v, 3) ELSE v

Constructed(v) == [raised |-> "no", top_champions |-> v]
Rejected(e) == [raised |-> e, top_champions |-> << >>]

PlayerProfileTopChampions(v) ==
    IF Len(v) < min_items \/ Len(v) > max_items
    THEN Rejected("ValidationError")
    ELSE Constructed(validate_top_champions(v))

\* a call PlayerProfile(..., top_champions=input.top_champions, ...)
ConstructPlayerProfile ==
    /\ pc = "PlayerProfile"
    /\ output' = PlayerProfileTopChampions(input.top_champions)
    /\ pc' = "Done"
    /\ UNCHANGED << notEmbedVars, players, idx, calls, embedVars >>

(***************************************************************************)
(* Calls made to SupabaseClient one after the other by whoever holds it:   *)
(* insert_bronze_raw(raw_data, ...) and promote_to_gold(silver_id, ...).   *)
(* The normalization of raw rows is done by the store's trigger, outside   *)
(* the client; silver_players is what the store holds during the calls.    *)
(***************************************************************************)
RawRecords == {"rawA", "rawB"}

InsertBronzeRaw ==
    /\ pc = "client"
    /\ Len(calls) < MaxStoreCalls
    /\ \E raw_data \in RawRecords, ok \in BOOLEAN :
         /\ bronze' = insert_bronze_raw(bronze, raw_data, ok)
         /\ calls' = Append(calls, Call("client", "insert_bronze_raw", << raw_data >>,
                                        IF ok THEN "ok" ELSE "raise"))
    /\ UNCHANGED << entry, pc, identifiers, i, profiles, silver, gold, players,
                    idx, inserted_count, silver_players, promoted_count,
                    synced_count, input, output, error_count, retry_state,
                    open_pages, embedVars, proxyVars >>

PromoteToGold ==
    /\ pc = "client"
    /\ Len(calls) < MaxStoreCalls
    /\ \E silver_id \in 1..(MaxSilver + 1), ok \in BOOLEAN :
         LET result == promote_to_gold(silver, gold, silver_id, ok) IN
         /\ gold' = result.gold
         /\ calls' = Append(calls, Call("client", "promote_to_gold", << silver_id >>,
                                        IF result.raised = "no" THEN "ok" ELSE "raise"))
    /\ UNCHANGED << entry, pc, identifiers, i, profiles, silver, bronze,
                    players, idx, inserted_count, silver_players,
                    promoted_count, synced_count, input, output, error_count,
                    retry_state, open_pages, embedVars, proxyVars >>

(***************************************************************************)
(* Initial states: one per operation that can be called from outside.      *)
(***************************************************************************)
TargetLists(max) == { [k \in 1..n |-> k] : n \in 0..max }

NoInput == [sync_to_airtable |-> TRUE, min_win_rate |-> DefaultMinWinRate]

InitCommon ==
    /\ i = 0
    /\ profiles = << >>
    /\ gold = << >>
    /\ players = << >>
    /\ idx = 0
    /\ inserted_count = 0
    /\ silver_players = << >>
    /\ promoted_count = 0
    /\ synced_count = 0
    /\ error_count = 0
    /\ calls = << >>
    /\ retry_state = NoRetry
    /\ bronze = << >>
    /\ open_pages = 0
    /\ proxies = << >>
    /\ current_proxy_index = 0
    /\ gold_analytics = << >>
    /\ pending = << >>
    /\ embeddings = 0
    /\ total_success = 0
    /\ total_errors = 0
    /\ output = None

\* scraper.scrape_players(identifiers)
InitCollect ==
    /\ entry = "scrape_players"
    /\ pc = "scrape_players"
    /\ identifiers \in TargetLists(MaxTargets)
    /\ silver = << >>
    /\ input = NoInput
    /\ InitCommon

\* pipeline.run_full_pipeline(source, identifiers, sync_to_airtable)
InitPipeline ==
    /\ entry = "run_full_pipeline"
    /\ pc = "start"
    /\ identifiers \in TargetLists(MaxPipelineTargets)
    /\ silver \in UNION { Tables(n, RowKinds) : n \in 0..MaxSilver }
    /\ input \in [sync_to_airtable : BOOLEAN, min_win_rate : {DefaultMinWinRate}]
    /\ InitCommon

\* pipeline.promote_best_to_gold(min_win_rate, limit)
Thresholds == {549, DefaultMinWinRate}

InitPromote ==
    /\ entry = "promote_best_to_gold"
    /\ pc = "promote_query"
    /\ identifiers = << >>
    /\ silver \in UNION { Tables(n, RowKinds) : n \in 0..MaxPlayers }
    /\ input \in [sync_to_airtable : {TRUE}, min_win_rate : Thresholds]
    /\ InitCommon

\* pipeline.sync_to_airtable(limit=50): a table of n rows, at most one of
\* which fails PlayerProfile's validation
GoodKind == << TRUE, TRUE, 550, TRUE >>
BadKind == << TRUE, TRUE, 600, FALSE >>

ExportTables ==
    { [k \in 1..n |-> MkRow(k, IF k = bad THEN BadKind ELSE GoodKind)] :
        n \in 0..MaxExport, bad \in 0..MaxExport }

InitExport ==
    /\ entry = "sync_to_airtable"
    /\ pc = "export_query"
    /\ identifiers = << >>
    /\ silver \in ExportTables
    /\ input = NoInput
    /\ InitCommon

\* pipeline.run_scraping_to_bronze(source, identifiers), or
\* scraper.insert_to_bronze(players_data)
InitInsert ==
    /\ \/ /\ entry = "run_scraping_to_bronze"
          /\ pc = "start"
          /\ identifiers \in TargetLists(MaxTargets)
          /\ profiles = << >>
       \/ /\ entry = "insert_to_bronze"
          /\ pc = "insert_to_bronze"
          /\ identifiers = << >>
          /\ profiles \in TargetLists(MaxTargets)
    /\ silver = << >>
    /\ input = NoInput
    /\ i = 0
    /\ gold = << >>
    /\ players = << >>
    /\ idx = 0
    /\ inserted_count = 0
    /\ silver_players = << >>
    /\ promoted_count = 0
    /\ synced_count = 0
    /\ error_count = 0
    /\ calls = << >>
    /\ retry_state = NoRetry
    /\ bronze = << >>
    /\ open_pages = 0
    /\ proxies = << >>
    /\ current_proxy_index = 0
    /\ gold_analytics = << >>
    /\ pending = << >>
    /\ embeddings = 0
    /\ total_success = 0
    /\ total_errors = 0
    /\ output = None

\* scraper.run_ingestion(source, game, limit) on a fresh scraper
InitIngestion ==
    /\ entry = "run_ingestion"
    /\ pc = "run_ingestion"
    /\ identifiers \in TargetLists(MaxRows)
    /\ silver = << >>
    /\ input \in [source : Sources]
    /\ InitCommon

\* detect_country(profile_text, server, url, additional_text)
SeqsUpTo(S, n) == UNION { [1..k -> S] : k \in 0..n }

Optional(S) == {Null} \cup { Some(v) : v \in S }

ProfileTexts == SeqsUpTo({"flag_KR", "flag_IN", "China", "x"}, MaxTextLen)
AdditionalTexts == SeqsUpTo({"flag_JP", "Taiwan"}, MaxTextLen)
Servers == {"", "KR ", "Mumbai", "asia", "euw"}
Urls == SeqsUpTo({"/KR/", "vn.op.gg", "x"}, MaxTextLen)

InitCountry ==
    /\ entry = "detect_country"
    /\ pc = "detect_country"
    /\ input \in [profile_text : Optional(ProfileTexts),
                  server : Optional(Servers),
                  url : Optional(Urls),
                  additional_text : Optional(AdditionalTexts)]
    /\ identifiers = << >>
    /\ silver = << >>
    /\ InitCommon

\* compute_skill_vector(stats, top_champions)
StatsMaps ==
    [ win_rate : {Absent, JsonNull, Text, Num(-100), Num(549), Num(2500)},
      kda : {Absent, Text, Num(-50), Num(25), Num(9990)},
      aggressiveness : {Absent, JsonNull, Text, Num(20), Num(90)},
      kills_avg : {Absent, Text, Num(0), Num(50)},
      deaths_avg : {Absent, JsonNull, Num(-10), Num(-30), Num(20)},
      versatility : {Absent, Text, Num(5), Num(20)} ]

ChampionLists ==
    { [is_list |-> FALSE, len |-> 0] }
    \cup { [is_list |-> TRUE, len |-> n] : n \in 0..MaxChampions }

InitSkill ==
    /\ entry = "compute_skill_vector"
    /\ pc = "compute_skill_vector"
    /\ input \in [stats : StatsMaps, top_champions : ChampionLists]
    /\ identifiers = << >>
    /\ silver = << >>
    /\ InitCommon

NextCollect == ScrapePlayerRetry \/ ScrapePlayersStep \/ ScrapePlayersReturn

NextPipeline ==
    \/ RunScrapingToBronzeEnter
    \/ ScrapePlayerRetry
    \/ ScrapePlayersStep
    \/ ScrapePlayersReturn
    \/ InsertStep
    \/ InsertReturn
    \/ VerifySilverData
    \/ PromoteQuery
    \/ PromoteStep
    \/ PromoteReturn
    \/ ExportQuery
    \/ ExportStep
    \/ ExportReturn

NextInsert ==
    \/ RunScrapingToBronzeEnter
    \/ ScrapePlayerRetry
    \/ ScrapePlayersStep
    \/ ScrapePlayersReturn
    \/ InsertStep
    \/ InsertReturn
    \/ InsertToBronzeStep
    \/ InsertToBronzeReturn

NextIngestion ==
    \/ RunIngestionEnter
    \/ RankingRowStep
    \/ RankingReturn
    \/ InsertToBronzeStep
    \/ InsertToBronzeReturn

SpecIngestion == InitIngestion /\ [][NextIngestion]_vars

NextPromote == PromoteQuery \/ PromoteStep \/ PromoteReturn

NextExport == ExportQuery \/ ExportStep \/ ExportReturn

SpecCollect == InitCollect /\ [][NextCollect]_vars
\* the event loop runs the coroutine on: every sleep and every call returns
SpecCollectFair == SpecCollect /\ WF_vars(NextCollect)
SpecInsert == InitInsert /\ [][NextInsert]_vars
SpecPipeline == InitPipeline /\ [][NextPipeline]_vars
SpecPromote == InitPromote /\ [][NextPromote]_vars
SpecExport == InitExport /\ [][NextExport]_vars

\* main(limit, country, game, dry_run, batch_size): a normalized table with
\* at most one row whose stats column is null, and an analytics table that
\* is empty or holds a row of player 1, with or without a vector
NullStatsKind == << FALSE, FALSE, 0, TRUE >>

EmbedTables ==
    { [k \in 1..n |-> MkRow(k, IF k = bad THEN NullStatsKind ELSE GoodKind)] :
        n \in 0..MaxEmbedPlayers, bad \in 0..MaxEmbedPlayers }

InitEmbed ==
    /\ entry = "main"
    /\ pc = "embed_main"
    /\ identifiers = << >>
    /\ silver \in EmbedTables
    /\ input \in [dry_run : BOOLEAN, batch_size : {1, 2, BATCH_SIZE}]
    /\ i = 0
    /\ profiles = << >>
    /\ gold = << >>
    /\ players = << >>
    /\ idx = 0
    /\ inserted_count = 0
    /\ silver_players = << >>
    /\ promoted_count = 0
    /\ synced_count = 0
    /\ error_count = 0
    /\ calls = << >>
    /\ retry_state = NoRetry
    /\ bronze = << >>
    /\ open_pages = 0
    /\ proxies = << >>
    /\ current_proxy_index = 0
    /\ gold_analytics \in { << >>, << GoldRow(1, "null") >>, << GoldRow(1, "vec") >> }
    /\ pending = << >>
    /\ embeddings = 0
    /\ total_success = 0
    /\ total_errors = 0
    /\ output = None

NextEmbed ==
    \/ EmbedFetch
    \/ EmbedBatchStep
    \/ UpsertStep
    \/ EmbedBatchEnd
    \/ EmbedReturn

SpecEmbed == InitEmbed /\ [][NextEmbed]_vars

\* update_skill_vector(supabase, player, vector, dry_run) on an analytics
\* table of up to MaxAnalyticsRows rows without a skill_vector
AnalyticsTables ==
    UNION { [1..n -> { AnalyticsRow(id, identity, "null") :
                         id \in 1..3, identity \in {"a", "b"} }] :
            n \in 0..MaxAnalyticsRows }

InitUpdateVector ==
    /\ entry = "update_skill_vector"
    /\ pc = "update_skill_vector"
    /\ identifiers = << >>
    /\ silver = << >>
    /\ input \in [player : [id : {1}, identity : {"a"}], dry_run : BOOLEAN,
                   rows : AnalyticsTables]
    /\ i = 0
    /\ profiles = << >>
    /\ gold = << >>
    /\ players = << >>
    /\ idx = 0
    /\ inserted_count = 0
    /\ silver_players = << >>
    /\ promoted_count = 0
    /\ synced_count = 0
    /\ error_count = 0
    /\ calls = << >>
    /\ retry_state = NoRetry
    /\ bronze = << >>
    /\ open_pages = 0
    /\ proxies = << >>
    /\ current_proxy_index = 0
    /\ gold_analytics = input.rows
    /\ pending = << >>
    /\ embeddings = 0
    /\ total_success = 0
    /\ total_errors = 0
    /\ output = None

NextUpdateVector == UpdateSkillVector

SpecUpdateVector == InitUpdateVector /\ [][NextUpdateVector]_vars

\* PlayerProfile(...) with a list of up to MaxChampions champions
ChampionNames == {"Ahri", "Zed", "Lux"}

InitProfile ==
    /\ entry = "PlayerProfile"
    /\ pc = "PlayerProfile"
    /\ identifiers = << >>
    /\ silver = << >>
    /\ input \in [top_champions : SeqsUpTo(ChampionNames, MaxChampions)]
    /\ InitCommon

NextProfile == ConstructPlayerProfile

SpecProfile == InitProfile /\ [][NextProfile]_vars

\* a client over a store whose normalized tier holds rows 1..n
InitStore ==
    /\ entry = "client"
    /\ pc = "client"
    /\ identifiers = << >>
    /\ silver \in UNION { Tables(n, {GoodKind}) : n \in 0..MaxSilver }
    /\ input = NoInput
    /\ InitCommon

NextStore == InsertBronzeRaw \/ PromoteToGold

SpecStore == InitStore /\ [][NextStore]_vars

NextCountry == DetectCountry

SpecCountry == InitCountry /\ [][NextCountry]_vars

NextSkill == ComputeSkillVector

SpecSkill == InitSkill /\ [][NextSkill]_vars

(***************************************************************************)
(* Properties.                                                             *)
(***************************************************************************)
Last(s) == s[Len(s)]

ArgIds(cs) == [k \in 1..Len(cs) |-> cs[k].arg[1]]

Succeeded(cs) == SelectSeq(cs, LAMBDA c : c.res = "ok")

RECURSIVE Flatten(_)
Flatten(ss) == IF ss = << >> THEN << >> ELSE Head(ss) \o Flatten(Tail(ss))

CeilDiv(a, b) == (a + b - 1) \div b

ScrapeCalls == CallsOf("scrape_player")

\* C1: scrape_players never raises, attempts every target exactly once in
\* list order up to the last one, and returns exactly the profiles of the
\* targets whose extraction neither raised nor returned nothing, in order.
C1_CollectorIsolatesFailures ==
    /\ pc # "Raised"
    /\ Len(ScrapeCalls) = i
    /\ ArgIds(ScrapeCalls) = SubSeq(identifiers, 1, i)
    /\ profiles = ArgIds(SelectSeq(ScrapeCalls, LAMBDA c : c.res = "profile"))
    /\ pc = "Done" => Len(ScrapeCalls) = Len(identifiers)

\* a batch of five whose third target fails has returned four profiles
C1_Witness ==
    /\ pc = "Done"
    /\ Len(identifiers) = 5
    /\ ScrapeCalls[3].res = "raise"
    /\ profiles = << 1, 2, 4, 5 >>

PromoteCalls == CallsOf("promote_to_gold")

PromoteCallsFor(row) == SelectSeq(PromoteCalls, LAMBDA c : c.arg = << row.id >>)

\* the rows the promotion loop has examined so far
Examined == Take(players, idx)

\* the record holds a win_rate that reaches the threshold given to the stage
ReachesThreshold(row) ==
    /\ row.stats_present
    /\ row.has_win_rate
    /\ row.win_rate >= (IF entry = "run_full_pipeline" THEN 550
                        ELSE input.min_win_rate)

C8_PromoteFailureIsolated ==
    /\ \A k \in 1..Len(Examined) :
         (\E c \in 1..Len(PromoteCalls) :
             /\ PromoteCalls[c].arg = << Examined[k].id >>
             /\ PromoteCalls[c].res = "raise")
         => ~(pc = "Raised" /\ idx = k)
    /\ pc \in {"promote_loop", "Done"} =>
         promoted_count = Len(Succeeded(PromoteCalls))
    /\ pc = "Done" =>
         /\ idx = Len(players)
         /\ \A k \in 1..Len(players) :
              ReachesThreshold(players[k]) =>
                  Len(PromoteCallsFor(players[k])) = 1

\* the first qualifying record's promotion failed, a later one succeeded
C8_Witness ==
    /\ pc = "Done"
    /\ Len(PromoteCalls) >= 2
    /\ PromoteCalls[1].res = "raise"
    /\ PromoteCalls[2].res = "ok"
    /\ promoted_count = 1

InsertCalls == CallsOf("insert_bronze_raw")

InInsertion == pc \in {"insert_loop", "insert_to_bronze"}

\* C7: in the insertion stage (run_scraping_to_bronze and insert_to_bronze)
\* every collected profile gets exactly one insert attempt, in order; a
\* failing insert neither stops the remaining inserts nor raises out of the
\* stage; the returned count is the number of inserts that succeeded.
C7_InsertFailureIsolated ==
    /\ pc = "Raised" => calls # << >> /\ Last(calls).op # "insert_bronze_raw"
    /\ InInsertion =>
         /\ Len(InsertCalls) = idx
         /\ ArgIds(InsertCalls) = SubSeq(profiles, 1, idx)
    /\ pc = "Done" => ArgIds(InsertCalls) = profiles
    /\ inserted_count = Len(Succeeded(InsertCalls))

\* the first insert failed, the two after it were still made and counted
C7_Witness ==
    /\ pc = "Done"
    /\ entry = "run_scraping_to_bronze"
    /\ Len(InsertCalls) = 3
    /\ InsertCalls[1].res = "raise"
    /\ InsertCalls[2].res = "ok"
    /\ InsertCalls[3].res = "ok"
    /\ inserted_count = 2

\* the same, through BronzeIngestionScraper.insert_to_bronze
C7_WitnessBronze ==
    /\ pc = "Done"
    /\ entry = "insert_to_bronze"
    /\ Len(InsertCalls) = 3
    /\ InsertCalls[1].res = "raise"
    /\ inserted_count = 2
    /\ error_count = 1

(***************************************************************************)
(* The stage a call belongs to, numbered in the order Collecting (1),      *)
(* Inserting (2), Verifying (3), Promoting (4), Exporting (5).             *)
(***************************************************************************)
StageOf(c) ==
    CASE c.op \in {"launch_browser", "scrape_player"} -> 1
      [] c.op = "sleep" /\ c.by = "scrape_players" -> 1
      [] c.op = "insert_bronze_raw" -> 2
      [] c.op = "sleep" /\ c.by = "run_full_pipeline" -> 2
      [] c.by = "verify_silver_data" -> 3
      [] c.by = "promote_best_to_gold" -> 4
      [] c.by = "sync_to_airtable" -> 5

HasStage(n) == \E k \in 1..Len(calls) : StageOf(calls[k]) = n

\* C6: in run_full_pipeline the stages occur in the order Collecting,
\* Inserting, Verifying, Promoting, Exporting, Done and none is re-entered:
\* no insert before collection returned, no promote-stage call before the
\* inserts and the verification query are finished, no export-stage call
\* before the promotion stage has finished, and nothing after Done.
C6_StagesInOrder ==
    /\ \A j, k \in 1..Len(calls) :
         j < k => StageOf(calls[j]) <= StageOf(calls[k])
    /\ HasStage(2) => Len(ScrapeCalls) = Len(identifiers)
    /\ (HasStage(3) \/ HasStage(4) \/ HasStage(5)) =>
         /\ ArgIds(InsertCalls) = profiles
         /\ \E k \in 1..Len(calls) :
              calls[k].op = "sleep" /\ calls[k].by = "run_full_pipeline"
    /\ (HasStage(4) \/ HasStage(5)) =>
         \E k \in 1..Len(calls) :
              /\ calls[k].by = "verify_silver_data"
              /\ calls[k].res = "ok"
    /\ HasStage(5) =>
         \A k \in 1..Len(silver) :
              ReachesThreshold(silver[k]) =>
                  Len(PromoteCallsFor(silver[k])) = 1
    /\ pc = "Done" =>
         /\ HasStage(4)
         /\ input.sync_to_airtable => HasStage(5)

\* a run that went through all five stages and made a call in each
C6_Witness ==
    /\ pc = "Done"
    /\ \A n \in 1..5 : HasStage(n)
    /\ \E k \in 1..Len(calls) : calls[k].op = "promote_to_gold"
    /\ \E k \in 1..Len(calls) : calls[k].op = "send_players_batch"

\* some earlier stage of the run produced output
EarlierOutput == profiles # << >> \/ inserted_count > 0

\* the store's query raised in Verifying, Promoting or Exporting
QueryFailed ==
    /\ calls # << >>
    /\ Last(calls).op = "get_players_by_country"
    /\ Last(calls).res = "raise"

\* C10: when the store's query raises during Verifying, Promoting or
\* Exporting after an earlier stage produced output, run_full_pipeline does
\* not raise (it ends in Done with the partial counts).
C10_StoreOutageEndsInDone ==
    (QueryFailed /\ EarlierOutput) => pc # "Raised"

SendCalls == CallsOf("send_players_batch")

SentArgs == [k \in 1..Len(SendCalls) |-> SendCalls[k].arg]

\* the record satisfies PlayerProfile's validation
ValidRecord(row) == row.stats_present /\ row.has_win_rate /\ row.fields_ok

\* the number of 10-record chunks of the fetched rows
ChunkCount == CeilDiv(Len(players), 10)

\* the k-th chunk (from 1) of the fetched rows
Chunk(k) == SubSeq(players, 10 * (k - 1) + 1, Min(10 * k, Len(players)))

\* the chunks that hold at least one valid record
SendableChunks ==
    { k \in 1..ChunkCount :
        \E j \in 1..Len(Chunk(k)) : ValidRecord(Chunk(k)[j]) }

\* C9: a failed sink call does not end sync_to_airtable: every later chunk
\* is still sent, the stage does not raise, nothing sent is undone, and the
\* returned count is the number of records in the chunks whose call
\* succeeded.
C9_ChunkFailureIsolated ==
    /\ pc = "Raised" => SendCalls = << >> /\ QueryFailed
    /\ \A k \in 1..Len(calls) :
         calls[k].op \in {"get_players_by_country", "send_players_batch"}
    /\ synced_count =
         SumSeq([k \in 1..Len(Succeeded(SendCalls)) |->
                    Len(Succeeded(SendCalls)[k].arg)])
    /\ pc = "Done" => Len(SendCalls) = Cardinality(SendableChunks)

\* the first chunk's call failed, the second and third were sent and counted
C9_Witness ==
    /\ pc = "Done"
    /\ Len(SendCalls) = 3
    /\ SendCalls[1].res = "raise"
    /\ SendCalls[2].res = "ok"
    /\ SendCalls[3].res = "ok"
    /\ synced_count = Len(players) - 10

\* C3 as stated: n fetched records give exactly ceil(n/10) sink calls, each
\* of at most 10 records, together carrying every record exactly once.
C3_EveryRecordInCeilCalls ==
    pc = "Done" =>
        /\ Len(SendCalls) = ChunkCount
        /\ \A k \in 1..Len(SendCalls) : Len(SendCalls[k].arg) <= 10
        /\ Flatten(SentArgs) = Ids(players)

\* C3, amended: one sink call, in order, for each 10-record chunk that holds
\* a record passing PlayerProfile's validation, hence at most ceil(n/10)
\* calls; each call carries at most 10 records and the calls together carry
\* every valid record exactly once, in order; when every record is valid
\* there are exactly ceil(n/10) calls carrying every record (23 records:
\* 10, 10, 3).
C3_ValidRecordsInChunkCalls ==
    pc = "Done" =>
        /\ Len(SendCalls) = Cardinality(SendableChunks)
        /\ Len(SendCalls) <= ChunkCount
        /\ \A k \in 1..Len(SendCalls) :
             /\ Len(SendCalls[k].arg) <= 10
             /\ \E c \in SendableChunks :
                  SendCalls[k].arg = Ids(SelectSeq(Chunk(c), ValidRecord))
        /\ Flatten(SentArgs) = Ids(SelectSeq(players, ValidRecord))
        /\ (\A k \in 1..Len(players) : ValidRecord(players[k])) =>
             /\ Len(SendCalls) = ChunkCount
             /\ Flatten(SentArgs) = Ids(players)

\* 23 valid records were sent in three calls of 10, 10 and 3
C3_Witness ==
    /\ pc = "Done"
    /\ Len(players) = 23
    /\ \A k \in 1..23 : ValidRecord(players[k])
    /\ [k \in 1..Len(SendCalls) |-> Len(SendCalls[k].arg)] = << 10, 10, 3 >>

CountryCodes == {"IN", "KR", "VN", "CN", "PH", "TH", "JP", "TW", "ID", "XX"}

\* the six signals in priority order: the country each one matches, or None
\* when its argument is absent or nothing in it matches
Signals ==
    LET pt == input.profile_text
        at == input.additional_text
    IN << IF pt = Null THEN None ELSE detect_country_from_flag(pt[1]),
          IF pt = Null THEN None ELSE detect_country_from_name(pt[1]),
          IF input.server = Null THEN None
          ELSE detect_country_from_server(input.server[1]),
          IF input.url = Null THEN None
          ELSE detect_country_from_url(input.url[1]),
          IF at = Null THEN None ELSE detect_country_from_flag(at[1]),
          IF at = Null THEN None ELSE detect_country_from_name(at[1]) >>

\* C4: detect_country is total and returns the country of the first signal
\* that matches, in the order flag(profile_text), name(profile_text), server
\* code, url marker, flag(additional_text), name(additional_text), and
\* UNKNOWN when none matches; a later signal never overrides an earlier one.
C4_FirstMatchWins ==
    pc = "Done" =>
        /\ output \in CountryCodes
        /\ (\A k \in 1..6 : Signals[k] = None) => output = UNKNOWN
        /\ \A k \in 1..6 :
             (Signals[k] # None /\ \A j \in 1..(k - 1) : Signals[j] = None)
             => output = Signals[k]

\* a profile text with Korea's flag and the name of China, a server of India
\* and a url of Vietnam's: the flag won
C4_Witness ==
    /\ pc = "Done"
    /\ input.profile_text = Some(<< "China", "flag_KR" >>)
    /\ input.server = Some("Mumbai")
    /\ input.url = Some(<< "vn.op.gg" >>)
    /\ output = "KR"

\* every value of the stats map is a number (of any sign and size), null or
\* missing, and top_champions is a list
NumericOrMissing ==
    /\ \A key \in DOMAIN input.stats :
         input.stats[key].kind \in {"num", "null", "absent"}
    /\ input.top_champions.is_list

\* C5: for every stats map and top_champions list, out-of-range, negative
\* or missing values included, compute_skill_vector returns exactly four
\* components, each within [0,1].
C5_VectorAlwaysInRange ==
    (pc = "Done" /\ NumericOrMissing) =>
        /\ output.raised = "no"
        /\ Len(output.vector) = 4
        /\ \A k \in 1..Len(output.vector) :
             output.vector[k] >= 0 /\ output.vector[k] <= Million

\* what scrape_players itself did, in order: extraction calls and waits
CollectorCalls == SelectSeq(calls, LAMBDA c : c.by = "scrape_players")

Waits == SelectSeq(CollectorCalls, LAMBDA c : c.op = "sleep")

\* C11: in scrape_players exactly one wait of rate_limit_delay lies between
\* every two consecutive extraction calls, whatever the earlier one's
\* outcome; n >= 1 targets give exactly n-1 waits and none after the last.
C11_OneWaitBetweenItems ==
    /\ \A k \in 1..Len(CollectorCalls) :
         IF k % 2 = 1
         THEN CollectorCalls[k].op = "scrape_player"
         ELSE /\ CollectorCalls[k].op = "sleep"
              /\ CollectorCalls[k].arg = << rate_limit_delay >>
    /\ Len(Waits) = (IF i = 0 THEN 0
                     ELSE IF i < Len(identifiers) THEN i ELSE i - 1)
    /\ (pc = "Done" /\ Len(identifiers) >= 1) =>
         /\ Len(Waits) = Len(identifiers) - 1
         /\ Last(CollectorCalls).op = "scrape_player"

\* four targets: a profile, a nothing and a raise are each followed by one
\* wait, and the last item by none
C11_Witness ==
    /\ pc = "Done"
    /\ Len(identifiers) = 4
    /\ ScrapeCalls[1].res = "profile"
    /\ ScrapeCalls[2].res = "none"
    /\ ScrapeCalls[3].res = "raise"
    /\ Len(Waits) = 3

RowCalls == CallsOf("extract_row")

\* the rows that were taken as a player (at least two cells) so far
AttemptedRows == SelectSeq(RowCalls, LAMBDA c : c.res # "few_cells")

\* C12: every per-item failure of the collector (the extraction raised or
\* returned nothing) adds exactly one to the error counter, so that the
\* attempted items are the succeeded ones plus error_count.
C12_ErrorCountEqualsFailures ==
    pc \in {"ranking_rows", "ranking_return"} =>
        Len(AttemptedRows) = Len(profiles) + error_count

\* the collection stage of the pipeline ran to its end and returned nothing
CollectedNothing ==
    /\ \E k \in 1..Len(calls) :
         calls[k].op = "launch_browser" /\ calls[k].res = "ok"
    /\ pc \notin {"start", "scrape_players"}
    /\ profiles = << >>

DownstreamOps ==
    {"insert_bronze_raw", "get_players_by_country", "promote_to_gold",
     "send_players_batch"}

\* C13: when collection yields zero results the run goes directly to Done
\* without error: no insert, no normalized-tier query, no promote call and
\* no export-sink call is made in that run.
C13_ZeroResultsShortCircuit ==
    CollectedNothing =>
        /\ pc # "Raised"
        /\ \A k \in 1..Len(calls) : calls[k].op \notin DownstreamOps

\* C14: no single record aborts a stage: a normalized record whose data is
\* malformed (its stats field null, a key absent) is skipped, the stage
\* does not raise, and all remaining records are still processed.
C14_MalformedRecordSkipped ==
    ~QueryFailed =>
        /\ pc # "Raised"
        /\ pc = "Done" => idx = Len(players)

\* C15: compute_skill_vector never raises: whatever is missing or malformed
\* in its input (a text or null statistic, a text in the explicit
\* aggressiveness or versatility field, a deaths_avg of -1, a top_champions
\* that is not a list), a vector is still returned.
C15_NeverRaises ==
    pc = "Done" => (output.raised = "no" /\ output.vector # << >>)

\* C16: every retry policy is bounded: one target's extraction is attempted
\* at most 3 times, the wait between two attempts is at most 10 seconds,
\* and scrape_players over a finite target list terminates for every
\* pattern of adapter successes and failures.
C16_RetriesBoundedAndTerminates ==
    /\ [](/\ retry_state.attempt_number <= 3
          /\ retry_state.upcoming_sleep <= 10)
    /\ <>(pc = "Done")

\* the second of two targets exhausted its three attempts, and the batch
\* ended
C16_Witness ==
    /\ pc = "Done"
    /\ Len(identifiers) = 2
    /\ ScrapeCalls[2].res = "raise"

\* the calls to the embedding provider: the batch asked for, and how many
\* vectors came back
ProviderCalls == CallsOf("embeddings.create")

MismatchedCalls == SelectSeq(ProviderCalls, LAMBDA c : c.res # Len(c.arg))

UpsertCalls == CallsOf("gold_analytics")

InSeq(x, s) == \E k \in 1..Len(s) : s[k] = x

\* the players of the batches whose answer had the wrong length
MismatchedPlayers == Flatten([k \in 1..Len(MismatchedCalls) |-> MismatchedCalls[k].arg])

\* C17: when the provider returns a number of vectors different from the
\* number of texts of a batch (zero after a provider error included), no
\* vector of that batch is stored for any player, all its players are
\* counted as errors, and processing continues with the next batch.
C17_MismatchFailsWholeBatch ==
    /\ \A k \in 1..Len(MismatchedPlayers) :
         /\ \A u \in 1..Len(UpsertCalls) :
              UpsertCalls[u].arg # << MismatchedPlayers[k] >>
         /\ ~InSeq(GoldRow(MismatchedPlayers[k], "vec"), gold_analytics)
    /\ total_errors = Len(MismatchedPlayers)
                      + Len(SelectSeq(UpsertCalls, LAMBDA c : c.res = "raise"))
    /\ pc = "embed_loop" => Len(ProviderCalls) = idx \div input.batch_size
    /\ (pc = "Done" /\ players # << >>) =>
         Len(ProviderCalls) = CeilDiv(Len(players), input.batch_size)

\* three batches of one player: the provider fails on the first, answers
\* the second with two vectors, and the third player's vector is stored
C17_Witness ==
    /\ pc = "Done"
    /\ Len(ProviderCalls) = 3
    /\ ProviderCalls[1].res = 0
    /\ ProviderCalls[2].res = 2
    /\ ProviderCalls[3].res = 1
    /\ total_errors = 2
    /\ InSeq(GoldRow(3, "vec"), gold_analytics)

UpdateCalls == SelectSeq(calls, LAMBDA c : c.by = "update_skill_vector")

SomeUpdateMatched == \E k \in 1..Len(UpdateCalls) : UpdateCalls[k].res = "matched"

\* the rows of the table as it was before the call that the update on the
\* given column matches
InitiallyMatched(column, value) == MatchedBy(input.rows, column, value)

\* C18 as stated: update_skill_vector returns success if and only if one of
\* its two updates matched at least one row.
C18_SuccessIffUpdateMatched ==
    pc = "Done" => (output = "True" <=> SomeUpdateMatched)

\* C18, with dry_run not set: the update by player_id comes first, the
\* update by nickname + game + country is issued only when the first one
\* matched no row, success is returned if and only if one of the two
\* matched a row, and the rows written are those of one update only.
C18_PrimaryThenFallback ==
    (pc = "Done" /\ ~input.dry_run) =>
        /\ Len(UpdateCalls) \in {1, 2}
        /\ UpdateCalls[1].op = "update_by_player_id"
        /\ UpdateCalls[1].arg = << input.player.id >>
        /\ Len(UpdateCalls) = 2 <=> UpdateCalls[1].res = "none"
        /\ Len(UpdateCalls) = 2 => UpdateCalls[2].op = "update_by_identity"
        /\ output = "True" <=> SomeUpdateMatched
        /\ gold_analytics =
             ApplyUpdate(input.rows,
                IF InitiallyMatched("player_id", input.player.id) # {}
                THEN InitiallyMatched("player_id", input.player.id)
                ELSE InitiallyMatched("identity", input.player.identity))

\* no row carries the player's id, one carries the player's nickname, game
\* and country: the fallback update wrote it and success was returned
C18_Witness ==
    /\ pc = "Done"
    /\ ~input.dry_run
    /\ Len(UpdateCalls) = 2
    /\ UpdateCalls[1].res = "none"
    /\ UpdateCalls[2].res = "matched"
    /\ output = "True"
    /\ \E k \in 1..Len(gold_analytics) :
         gold_analytics[k] = AnalyticsRow(2, "a", "vec")

\* C19: constructing a PlayerProfile with more than 3 top_champions is never
\* rejected: construction succeeds and the profile holds exactly the first
\* 3 supplied champions in their original order.
C19_TruncatedNeverRejected ==
    (pc = "Done" /\ Len(input.top_champions) > 3) =>
        /\ output.raised = "no"
        /\ output.top_champions = SubSeq(input.top_champions, 1, 3)

\* C20: a run that inserts zero records is reported as a failed run, a run
\* with at least one record inserted as a successful one: the reported
\* outcome is success if and only if the inserted count is greater than zero.
C20_SuccessIffInserted ==
    pc = "Done" => (output = "success" <=> inserted_count > 0)

NoDuplicates(s) == \A j, k \in 1..Len(s) : s[j] = s[k] => j = k

\* C21: store writes are insert-or-skip: submitting the same raw record
\* again, or promoting a normalized record that was already promoted, does
\* not create a second raw row or a second verified row for that record.
C21_WritesAreInsertOrSkip ==
    /\ NoDuplicates(bronze)
    /\ NoDuplicates([k \in 1..Len(gold) |-> gold[k].silver_id])

ClientPromoteCalls ==
    SelectSeq(calls, LAMBDA c : c.by = "client" /\ c.op = "promote_to_gold")

Normalized(silver_id) == SilverById(silver, silver_id) # << >>

\* C22: promote_to_gold creates a verified row only for an id that exists
\* in the normalized tier at that moment, copying that row's fields; for an
\* absent id it raises and creates no verified row; so every verified row
\* refers to a normalized record, and promotion never removes or changes
\* the normalized row.
C22_VerifiedOnlyFromNormalized ==
    /\ [](/\ \A k \in 1..Len(gold) :
               /\ Normalized(gold[k].silver_id)
               /\ gold[k].player = SilverById(silver, gold[k].silver_id)[1]
          /\ \A k \in 1..Len(ClientPromoteCalls) :
               ~Normalized(ClientPromoteCalls[k].arg[1]) =>
                   ClientPromoteCalls[k].res = "raise"
          /\ ArgIds(Succeeded(ClientPromoteCalls))
               = [k \in 1..Len(gold) |-> gold[k].silver_id])
    /\ [][silver' = silver]_vars

\* with one normalized record, promoting id 2 raised and promoting id 1
\* created the verified row that copies it
C22_Witness ==
    /\ Len(silver) = 1
    /\ \E k \in 1..Len(ClientPromoteCalls) :
         ClientPromoteCalls[k].arg = << 2 >> /\ ClientPromoteCalls[k].res = "raise"
    /\ gold = << GoldRecord(1, silver[1]) >>


(***************************************************************************)
(* One call of an adapter's scrape_player, attempt by attempt              *)
(* (scrapers.py:95-161 and 169-273, create_page at scrapers.py:37-44).     *)
(* An attempt creates the page outside the try block, navigates and        *)
(* extracts inside it, and closes the page in the finally clause.          *)
(* tenacity starts another attempt only when the attempt raised.           *)
(***************************************************************************)
PageCall(op, res) ==
    Call("scrape_player", op, << retry_state.attempt_number >>, res)

\* tenacity, after an attempt raised: RetryError once the stop condition
\* holds (reraise is left at its default), else sleep and call again
AfterRaise ==
    IF stop_after_attempt(retry_state.attempt_number)
    THEN [pc |-> "Done", output |-> "RetryError", retry_state |-> retry_state,
          sleep |-> << >>]
    ELSE [pc |-> "new_page", output |-> None,
          retry_state |-> [attempt_number |-> retry_state.attempt_number + 1,
                           upcoming_sleep |-> wait_exponential(retry_state.attempt_number)],
          sleep |-> << Call("retry", "sleep",
                            << wait_exponential(retry_state.attempt_number) >>, "ok") >>]

\* scrapers.py:157-159 and 269-271  except Exception: log, return None
FailureInTry == None

\* scrapers.py:39  page = await self.browser.new_page()
NewPage ==
    /\ pc = "new_page"
    /\ \E ok \in BOOLEAN :
         IF ok
         THEN /\ open_pages' = open_pages + 1
              /\ calls' = Append(calls, PageCall("new_page", "ok"))
              /\ pc' = "set_extra_http_headers"
              /\ UNCHANGED << retry_state, output >>
         ELSE /\ calls' = Append(calls, PageCall("new_page", "raise")) \o AfterRaise.sleep
              /\ pc' = AfterRaise.pc
              /\ retry_state' = AfterRaise.retry_state
              /\ output' = AfterRaise.output
              /\ UNCHANGED open_pages
    /\ UNCHANGED << entry, identifiers, i, profiles, silver, gold, bronze, players,
                    idx, inserted_count, silver_players, promoted_count,
                    synced_count, error_count, input, embedVars, proxyVars >>

\* scrapers.py:40-44  await page.set_extra_http_headers(...); return page.
\* create_page is called before the try block (scrapers.py:106 and 181), so
\* a failure here leaves the attempt with the page still open
SetExtraHttpHeaders ==
    /\ pc = "set_extra_http_headers"
    /\ \E ok \in BOOLEAN :
         IF ok
         THEN /\ calls' = Append(calls, PageCall("set_extra_http_headers", "ok"))
              /\ pc' = "goto"
              /\ UNCHANGED << retry_state, output >>
         ELSE /\ calls' = Append(calls, PageCall("set_extra_http_headers", "raise"))
                            \o AfterRaise.sleep
              /\ pc' = AfterRaise.pc
              /\ retry_state' = AfterRaise.retry_state
              /\ output' = AfterRaise.output
    /\ UNCHANGED << entry, identifiers, i, profiles, silver, gold, bronze, players,
                    idx, inserted_count, silver_players, promoted_count,
                    synced_count, error_count, input, open_pages, embedVars, proxyVars >>

\* scrapers.py:109 and 186  await page.goto(url, wait_until="domcontentloaded")
\* inside the try block: a network or timeout error is caught by the except
\* clause
PageGoto ==
    /\ pc = "goto"
    /\ \E ok \in BOOLEAN :
         IF ok
         THEN /\ calls' = Append(calls, PageCall("goto", "ok"))
              /\ pc' = "extract"
              /\ UNCHANGED output
         ELSE /\ calls' = Append(calls, PageCall("goto", "raise"))
              /\ pc' = "close"
              /\ output' = FailureInTry
    /\ UNCHANGED << entry, identifiers, i, profiles, silver, gold, bronze, players,
                    idx, inserted_count, silver_players, promoted_count,
                    synced_count, error_count, input, retry_state, open_pages,
                    embedVars, proxyVars >>

\* scrapers.py:111-155 and 188-267  read the page and build the profile
ExtractProfile ==
    /\ pc = "extract"
    /\ \E ok \in BOOLEAN :
         IF ok
         THEN /\ calls' = Append(calls, PageCall("extract", "ok"))
              /\ pc' = "close"
              /\ output' = "profile"
         ELSE /\ calls' = Append(calls, PageCall("extract", "raise"))
              /\ pc' = "close"
              /\ output' = FailureInTry
    /\ UNCHANGED << entry, identifiers, i, profiles, silver, gold, bronze, players,
                    idx, inserted_count, silver_players, promoted_count,
                    synced_count, error_count, input, retry_state, open_pages,
                    embedVars, proxyVars >>

\* scrapers.py:160-161 and 272-273  finally: await page.close(); then the
\* attempt returns what the try block decided, or raises when close raised
\* (whether the page is gone then is not known)
PageClose ==
    /\ pc = "close"
    /\ \E ok \in BOOLEAN, closed \in BOOLEAN :
         /\ ok => closed
         /\ open_pages' = IF closed THEN open_pages - 1 ELSE open_pages
         /\ IF ok
            THEN /\ calls' = Append(calls, PageCall("close", "ok"))
                 /\ pc' = "Done"
                 /\ UNCHANGED << retry_state, output >>
            ELSE /\ calls' = Append(calls, PageCall("close", "raise"))
                               \o AfterRaise.sleep
                 /\ pc' = AfterRaise.pc
                 /\ retry_state' = AfterRaise.retry_state
                 /\ output' = AfterRaise.output
    /\ UNCHANGED << entry, identifiers, i, profiles, silver, gold, bronze, players,
                    idx, inserted_count, silver_players, promoted_count,
                    synced_count, error_count, input, embedVars, proxyVars >>

\* scraper.scrape_player(identifier)
InitScrapePlayer ==
    /\ entry = "scrape_player"
    /\ pc = "new_page"
    /\ identifiers \in TargetLists(1) \ {<< >>}
    /\ silver = << >>
    /\ input = NoInput
    /\ InitCommon

NextScrapePlayer ==
    NewPage \/ SetExtraHttpHeaders \/ PageGoto \/ ExtractProfile \/ PageClose

SpecScrapePlayer == InitScrapePlayer /\ [][NextScrapePlayer]_vars

PageCalls(op) ==
    SelectSeq(calls, LAMBDA c : c.by = "scrape_player" /\ c.op = op)

\* C23: a per-item extraction that fails with a transient network or
\* timeout error during page navigation is retried (with backoff, up to
\* max_attempt_number attempts) before the item is skipped: an item is not
\* skipped after a single failed attempt.
C23_NavigationFailureRetried ==
    ( /\ entry = "scrape_player"
      /\ pc = "Done"
      /\ output = None
      /\ PageCalls("goto") # << >>
      /\ Last(PageCalls("goto")).res = "raise" )
    => retry_state.attempt_number = max_attempt_number


CloseNeverRaised ==
    \A k \in 1..Len(PageCalls("close")) : PageCalls("close")[k].res = "ok"

\* C26: every browser page opened for a per-item extraction is closed by
\* the time the extraction returns or raises, on every failure path,
\* including a failure while configuring the new page: when scrape_player
\* is over no page remains open.  (Stated for the runs in which page.close
\* itself never fails.)
C26_NoPageLeftOpen ==
    (entry = "scrape_player" /\ pc = "Done" /\ CloseNeverRaised)
    => open_pages = 0


\* C24: detect_country returns UNKNOWN only as the final default: when
\* profile_text names no country and server is absent, unlisted or "asia",
\* a url that carries a per-country marker, or else an additional_text that
\* carries a known flag or country name, determines the result.
C24_UnknownOnlyAsDefault ==
    (entry = "detect_country" /\ pc = "Done" /\ output = UNKNOWN)
    => \A k \in {1, 2, 4, 5, 6} : Signals[k] = None


\* the provider calls and the waits of the embedding run, in order
EmbedMainCalls ==
    SelectSeq(calls, LAMBDA c : c.by = "main" /\ c.op \in {"embeddings.create", "sleep"})

\* C25: in the embedding run a rate-limit wait of OPENAI_RATE_LIMIT_DELAY
\* lies between every two consecutive provider calls, also when the earlier
\* batch failed with a length mismatch, and no wait follows the last batch.
C25_WaitBetweenProviderCalls ==
    entry = "main" =>
        /\ \A k \in 1..(Len(EmbedMainCalls) - 1) :
             EmbedMainCalls[k].op = "embeddings.create"
             => /\ EmbedMainCalls[k + 1].op = "sleep"
                /\ EmbedMainCalls[k + 1].arg = << OPENAI_RATE_LIMIT_DELAY >>
        /\ (pc = "Done" /\ EmbedMainCalls # << >>)
             => Last(EmbedMainCalls).op = "embeddings.create"


PlayerIds(rows) == [k \in 1..Len(rows) |-> rows[k].player_id]

\* the step is a call of upsert_embedding_to_gold that went to the store
UpsertIssued ==
    /\ Len(calls') = Len(calls) + 1
    /\ Last(calls').by = "upsert_embedding_to_gold"

\* C27: after any sequence of sequential upsert_embedding_to_gold calls on
\* a store that starts with at most one analytics row per player_id, there
\* is still at most one row per player_id: the call updates the row when
\* one exists and inserts only when none exists; a call that fails returns
\* False (counted as an error) without raising and leaves the store as it
\* was.
C27_OneAnalyticsRowPerPlayer ==
    /\ [](entry = "main" => NoDuplicates(PlayerIds(gold_analytics)))
    /\ [][UpsertIssued =>
            LET player_id == Last(calls').arg[1]
                res == Last(calls').res
            IN  /\ res = "update" =>
                     /\ HasAnalyticsRow(gold_analytics, player_id)
                     /\ PlayerIds(gold_analytics') = PlayerIds(gold_analytics)
                     /\ InSeq(GoldRow(player_id, "vec"), gold_analytics')
                /\ res = "insert" =>
                     /\ ~HasAnalyticsRow(gold_analytics, player_id)
                     /\ gold_analytics' = Append(gold_analytics, GoldRow(player_id, "vec"))
                /\ res = "raise" =>
                     /\ gold_analytics' = gold_analytics
                     /\ total_errors' = total_errors + 1
                     /\ total_success' = total_success
                     /\ pc' # "Raised"
                /\ res # "raise" => total_success' = total_success + 1]_vars

\* the run updated player 1's row, inserted a row for player 2 and failed
\* to save player 3
C27_Witness ==
    /\ pc = "Done"
    /\ [k \in 1..Len(UpsertCalls) |-> UpsertCalls[k].res] = << "update", "insert", "raise" >>
    /\ gold_analytics = << GoldRow(1, "vec"), GoldRow(2, "vec") >>
    /\ total_errors = 1


\* C28: when the batch loop of the embedding run finishes, total_success +
\* total_errors equals the number of players fetched: every fetched player
\* is counted exactly once, as a success or as an error.
C28_EveryPlayerCountedOnce ==
    entry = "main" =>
        /\ pc = "Done" => total_success + total_errors = Len(players)
        /\ pc = "embed_loop" =>
             total_success + total_errors = Min(idx, Len(players))

\* three players in batches of one: a mismatched batch, a saved player and
\* a player the store refused
C28_Witness ==
    /\ entry = "main"
    /\ pc = "Done"
    /\ Len(players) = 3
    /\ MismatchedCalls # << >>
    /\ total_success = 1
    /\ total_errors = 2
    /\ \E k \in 1..Len(UpsertCalls) : UpsertCalls[k].res = "raise"


(***************************************************************************)
(* ProxyRotator (proxy_rotator.py:12-99):  the list loaded at construction *)
(* and the index of the proxy the next call hands out.                     *)
(***************************************************************************)
MaxProxies == 3
MaxProxyCalls == 7

\* proxy_rotator.py:33-80  the list _load_proxies builds from the
\* environment: empty for "none", else the configured entries, in order
\* (PROXY_LIST may name an entry twice)
ProxyLists == UNION { [1..n -> {"proxyA", "proxyB"}] : n \in 0..MaxProxies }

\* variant: the rotation skips a proxy
NextProxyIndexSkipping(index, n) == (index + 2) % n

\* proxy_rotator.py:93  (self.current_proxy_index + 1) % len(self.proxies)
NextProxyIndex(index, n) == (index + 1) % n

\* proxy_rotator.py:82-95  get_next_proxy(); Python's list index is 0-based
GetNextProxy ==
    /\ pc = "rotator"
    /\ Len(calls) < MaxProxyCalls
    /\ IF proxies = << >>
       THEN /\ output' = None
            /\ calls' = Append(calls, Call("client", "get_next_proxy", << >>, None))
            /\ UNCHANGED current_proxy_index
       ELSE LET proxy == proxies[current_proxy_index + 1] IN
            /\ output' = proxy
            /\ calls' = Append(calls, Call("client", "get_next_proxy", << >>, proxy))
            /\ current_proxy_index' = NextProxyIndex(current_proxy_index, Len(proxies))
    /\ UNCHANGED << entry, pc, identifiers, i, profiles, silver, gold, bronze,
                    open_pages, proxies, players, idx, inserted_count,
                    silver_players, promoted_count, synced_count, error_count,
                    retry_state, input, embedVars >>

\* proxy_rotator.py:18-31  ProxyRotator(proxy_service)
InitProxy ==
    /\ entry = "get_next_proxy"
    /\ pc = "rotator"
    /\ proxies \in ProxyLists
    /\ current_proxy_index = 0
    /\ identifiers = << >>
    /\ silver = << >>
    /\ input = NoInput
    /\ i = 0
    /\ profiles = << >>
    /\ gold = << >>
    /\ players = << >>
    /\ idx = 0
    /\ inserted_count = 0
    /\ silver_players = << >>
    /\ promoted_count = 0
    /\ synced_count = 0
    /\ error_count = 0
    /\ calls = << >>
    /\ retry_state = NoRetry
    /\ bronze = << >>
    /\ open_pages = 0
    /\ gold_analytics = << >>
    /\ pending = << >>
    /\ embeddings = 0
    /\ total_success = 0
    /\ total_errors = 0
    /\ output = None

NextProxy == GetNextProxy

SpecProxy == InitProxy /\ [][NextProxy]_vars

\* C29: get_next_proxy hands the proxies out round-robin in list order:
\* with n > 0 proxies the k-th call (counting from 0) returns
\* proxies[k mod n] and current_proxy_index stays within 0..n-1; with no
\* proxies every call returns None and the index is unchanged.
C29_RoundRobin ==
    entry = "get_next_proxy" =>
        LET n == Len(proxies) IN
        IF n = 0
        THEN /\ \A k \in 1..Len(calls) : calls[k].res = None
             /\ current_proxy_index = 0
        ELSE /\ \A k \in 0..(Len(calls) - 1) :
                  calls[k + 1].res = proxies[(k % n) + 1]
             /\ current_proxy_index \in 0..(n - 1)
             /\ current_proxy_index = Len(calls) % n

\* three proxies and seven calls: the rotation went round twice and the
\* seventh call returned the first proxy again
C29_Witness ==
    /\ entry = "get_next_proxy"
    /\ proxies = << "proxyA", "proxyB", "proxyB" >>
    /\ Len(calls) = 7
    /\ output = "proxyA"
    /\ current_proxy_index = 1


\* a call of either writer of vectors: the embedding run with its
\* upsert_embedding_to_gold, or update_skill_vector
InitVectors == InitEmbed \/ InitUpdateVector

NextVectors == NextEmbed \/ NextUpdateVector

SpecVectors == InitVectors /\ [][NextVectors]_vars

\* C30: with dry_run set, update_skill_vector and upsert_embedding_to_gold
\* issue no read and no write to the store, leave it unchanged, and return
\* True for every player.
C30_DryRunLeavesStoreAlone ==
    /\ []((entry = "main" /\ input.dry_run) =>
            /\ UpsertCalls = << >>
            /\ total_errors = Len(MismatchedPlayers)
            /\ pc = "Done" => total_success = Len(players) - Len(MismatchedPlayers))
    /\ []((entry = "update_skill_vector" /\ input.dry_run) =>
            /\ UpdateCalls = << >>
            /\ pc # "Raised"
            /\ pc = "Done" => output = Bool(TRUE))
    /\ [][input.dry_run => gold_analytics' = gold_analytics]_vars

\* a dry run over three players in batches of two, on a store that holds a
\* row of player 1 without a vector: all three counted as saved, the row
\* still without a vector
C30_Witness ==
    /\ entry = "main"
    /\ input.dry_run
    /\ input.batch_size = 2
    /\ pc = "Done"
    /\ Len(players) = 3
    /\ total_success = 3
    /\ UpsertCalls = << >>
    /\ gold_analytics = << GoldRow(1, "null") >>

====
